---- MODULE Spec2Model ----
(***************************************************************************)
(* A model of flyllm's request-dispatch engine: the LlmManager registry    *)
(* (trackers, routing index, usage map), the load-balancing strategies,    *)
(* the retry loop of generate_response / instance_selection, the list      *)
(* operations generate_sequentially and batch_generate, and generate_stream.*)
(*                                                                         *)
(* Every await on a tokio Mutex, on the adapter call and on the backoff    *)
(* sleep is a point where another request may run, so one request's        *)
(* iteration is split into the steps between those points.                 *)
(*                                                                         *)
(* Spec            one generate_response call, every registry and budget   *)
(* SpecLive        the same, every step that can be taken being taken      *)
(* SpecSequential  generate_sequentially                                   *)
(* SpecBatch       batch_generate, requests interleaved step by step       *)
(* SpecStream      generate_stream                                         *)
(* SpecApi         the three operations together                           *)
(* SpecTracker     one InstanceTracker recording results                   *)
(* SpecUsage       usage accounting with token counts near the u32 limit   *)
(* SpecStrategy    a strategy's select_instance on a slice of trackers     *)
(* SpecBuilder     LlmManagerBuilder: define_task, add_instance, ..., build *)
(* SpecConfig      LlmManager::from_config_str on a parsed configuration   *)
(* SpecHttp        what each adapter's generate makes of an HTTP response  *)
(* SpecMerge       the merge of task and request parameters                *)
(* SpecSse         the decoding of a streaming response body               *)
(* SpecConstruction a manager constructed by the builder or from a config   *)
(* SpecStreamSeries generate_stream called again and again on one manager   *)
(* SpecSseBytes    a streaming decoder over a body cut anywhere by the      *)
(*                 transport                                                *)
(* SpecLocks       callers of the public operations taking the locks one    *)
(*                 at a time, every lock that is free again being granted   *)
(***************************************************************************)
EXTENDS Integers, Sequences, FiniteSets, TLC

\* ---------------------------------------------------------------- bounds
MaxInstances == 2      \* instances registered before the manager is used
MaxRetries == 3        \* largest ordinary retry budget explored
MaxRequests == 1       \* requests that may be in flight together
MaxSequential == 4     \* longest list handed to generate_sequentially
MaxBatch == 3          \* longest list handed to batch_generate
MaxApiRetries == 1     \* largest max_retries under the list operations
MaxChunks == 2         \* chunks read from a returned stream
MaxRecords == 12       \* results recorded on one tracker in isolation
MaxUsageRequests == 3  \* requests made while large usages are reported
MaxSlice == 3          \* longest slice handed to a strategy on its own
MaxWindow == 2         \* response times held by a tracker in such a slice
MaxBuilderCalls == 5   \* builder methods called before build
MaxConfigTasks == 2    \* [[tasks]] tables of a configuration
MaxConfigProviders == 2 \* [[providers]] tables of a configuration
MaxBlocks == 2         \* byte blocks a streaming response body arrives in
MaxLines == 2          \* lines of one byte block
MaxCallers == 3        \* callers using one manager's locks together
MaxStreamCalls == 3    \* generate_stream calls made one after another
MaxBodyLines == 2      \* lines of a response body taken character by character
MaxCuts == 2           \* places where the transport cuts such a body

\* ------------------------------------------------------ program constants
U64Bits == 64          \* width of 2_u64 in the backoff computation
BackoffCapSecs == 60   \* .min(60) in the backoff computation
WindowCap == 10        \* response_times.len() > 10 evicts the oldest

\* A retry budget long enough for 2_u64.pow(attempts) to leave 64 bits.
LongRetries == U64Bits + 1

Requests == 1..MaxRequests
Tasks == {"chat", "code"}
NoTask == "none"                       \* Option<String>::None
Strategies == {"lru", "lowest_latency", "random"}
Durations == {1, 2}                    \* start_time.elapsed() of a call

\* ------------------------------------------------------------ error values
\* TokenUsage: three u32 counters.  A u32 is kept as two 16-bit limbs so
\* that the width is exact: the number is hi * 2^16 + lo.
U32Limb == 65536
u32(hi, lo) == [hi |-> hi, lo |-> lo]
\* a += b on u32: the wrapped sum, and whether the addition overflowed.
add_u32(a, b) ==
    LET lo == a.lo + b.lo
        hi == a.hi + b.hi + (lo \div U32Limb)
    IN [value |-> u32(hi % U32Limb, lo % U32Limb), overflow |-> hi >= U32Limb]
TokenUsage(prompt, completion, total) ==
    [prompt |-> prompt, completion |-> completion, total |-> total]
NoUsage == TokenUsage(u32(0, 0), u32(0, 0), u32(0, 0))
Usages == {TokenUsage(u32(0, 5), u32(0, 10), u32(0, 15))}
\* A usage of 2^30 prompt, 2^30 completion and 2^31 total tokens.
LargeUsage == TokenUsage(u32(16384, 0), u32(16384, 0), u32(32768, 0))

AdapterError(kind, msg) == [kind |-> kind, msg |-> msg, task |-> NoTask, excluded |-> 0]
ConfigError(msg, task, excluded) ==
    [kind |-> "ConfigError", msg |-> msg, task |-> task, excluded |-> excluded]
NoError == [kind |-> "none", msg |-> "", task |-> NoTask, excluded |-> 0]

\* What an adapter's generate can return for an enabled instance.
AdapterErrors ==
    { AdapterError("ApiError", "x"), AdapterError("RateLimit", "slow down"),
      AdapterError("RequestError", "timeout") }

OkResponse(content, has_usage, usage) ==
    [ok |-> TRUE, content |-> content, has_usage |-> has_usage, usage |-> usage,
     error |-> NoError]
ErrResponse(e) ==
    [ok |-> FALSE, content |-> "", has_usage |-> FALSE, usage |-> NoUsage, error |-> e]
AdapterResults ==
    { OkResponse("ok", TRUE, u) : u \in Usages } \cup { OkResponse("ok", FALSE, NoUsage) }
      \cup { ErrResponse(e) : e \in AdapterErrors }
\* The first statement of every adapter's generate and generate_stream: an
\* instance that is not enabled answers ProviderDisabled.
ProviderDisabled == ErrResponse(AdapterError("ProviderDisabled", "OpenAI"))
\* The elapsed time of a call; it is only ever used when the call succeeded.
ElapsedOf(response) == IF response.ok THEN Durations ELSE {1}

VARIABLES
    phase,              \* "build" while instances are registered, then "run"
    max_retries,        \* LlmManager.max_retries
    strategy,           \* LlmManager.strategy
    overflow_checks,    \* build profile: TRUE = arithmetic overflow panics
    instances,          \* id -> [enabled, tasks]   (the immutable LlmInstance)
    instance_counter,   \* LlmManager.instance_counter
    tasks_to_instances, \* task name -> sequence of ids (routing index)
    trackers,           \* id -> InstanceTracker
    tracker_order,      \* iteration order of the trackers HashMap
    total_usage,        \* id -> TokenUsage
    now,                \* the monotonic clock read by Instant::now()
    req,                \* request -> state of its generate_response call
    op,                 \* the public operation the caller has invoked
    requests,           \* its argument: the task of each GenerationRequest
    outputs,            \* batch_generate: the outputs join_all holds, as completed
    responses,          \* the Vec<LlmManagerResponse> built so far
    returned,           \* TRUE once the operation has returned responses
    stream,             \* the state of a generate_stream call
    defined_tasks,      \* LlmManagerBuilder.defined_tasks: name -> TaskDefinition
    providers_to_build, \* LlmManagerBuilder.providers_to_build
    builder_calls,      \* the builder methods called so far, in order
    config,             \* the Config that toml::from_str produced
    built,              \* what build / from_config_str returned
    http,               \* an upstream HTTP response and what an adapter made of it
    merge,              \* a parameter merge: its inputs and the LlmRequest built
    sse,                \* a streaming response body and the items decoded from it
    history,            \* the results one tracker was handed, in order
    locking             \* callers taking the manager's locks one lock at a time

vars == <<phase, max_retries, strategy, overflow_checks, instances, instance_counter,
          tasks_to_instances, trackers, tracker_order, total_usage, now, req,
          op, requests, outputs, responses, returned, stream,
          defined_tasks, providers_to_build, builder_calls, config, built,
          http, merge, sse, history, locking>>

registry == <<instances, instance_counter, tasks_to_instances, tracker_order>>
settings == <<phase, max_retries, strategy, overflow_checks>>
api == <<op, requests, outputs, responses, returned, stream>>
construction == <<defined_tasks, providers_to_build, builder_calls, config, built>>
adapters == <<http, merge, sse>>
studies == <<history, locking>>
library == <<construction, adapters, studies>>

\* ------------------------------------------------------------ small helpers
Min(a, b) == IF a < b THEN a ELSE b
Contains(s, x) == \E k \in 1..Len(s) : s[k] = x
SeqSum(s) ==
    LET RECURSIVE Go(_)
        Go(k) == IF k = 0 THEN 0 ELSE s[k] + Go(k - 1)
    IN Go(Len(s))
\* All sequences obtained by inserting x somewhere into s.
Insertions(s, x) ==
    { SubSeq(s, 1, k) \o <<x>> \o SubSeq(s, k + 1, Len(s)) : k \in 0..Len(s) }
\* Instant::now(): never earlier than any earlier reading.
ClockReadings == {now, now + 1}
\* Instants are only ever compared with one another, so they are kept up to
\* order: after a reading is stored the held instants (every tracker's
\* last_used and the start_time of every call in flight) are renumbered
\* 0, 1, .. with their order and their equalities unchanged.
InFlight == {"calling", "record"}
HeldInstants(trks, rqs) ==
    { trks[i].last_used : i \in DOMAIN trks }
      \cup { rqs[r].start_time : r \in { q \in DOMAIN rqs : rqs[q].pc \in InFlight } }
InstantRank(held, v) == Cardinality({ w \in held : w < v })
RenumberInstants(trks, held) ==
    [i \in DOMAIN trks |->
        [trks[i] EXCEPT !.last_used = InstantRank(held, trks[i].last_used)]]
RenumberStarts(rqs, held) ==
    [r \in DOMAIN rqs |->
        [rqs[r] EXCEPT !.start_time =
            IF rqs[r].pc \in InFlight THEN InstantRank(held, rqs[r].start_time) ELSE 0]]
LatestInstant(held) == IF held = {} THEN 0 ELSE Cardinality(held) - 1

\* ------------------------------------------------------------------ tracker
\* InstanceTracker::new
new_tracker(t) ==
    [last_used |-> t, response_times |-> <<>>, request_count |-> 0, error_count |-> 0]

\* push_response_time with the eviction left out.
push_response_time_unbounded(times, duration) == Append(times, duration)

\* push_response_time dropping the entry just pushed instead of the oldest.
push_response_time_newest_out(times, duration) ==
    LET pushed == Append(times, duration)
    IN IF Len(pushed) > WindowCap THEN SubSeq(pushed, 1, WindowCap) ELSE pushed

\* The latency window after a successful call: push, then drop the oldest
\* entry when more than WindowCap are held.
push_response_time(times, duration) ==
    LET pushed == Append(times, duration)
    IN IF Len(pushed) > WindowCap THEN Tail(pushed) ELSE pushed

\* record_result counting only the calls that succeeded.
record_result_successes_only(tracker, t, duration, result) ==
    IF result.ok
      THEN [last_used |-> t,
            request_count |-> tracker.request_count + 1,
            response_times |-> Append(tracker.response_times, duration),
            error_count |-> tracker.error_count]
      ELSE [tracker EXCEPT !.last_used = t]

\* InstanceTracker::record_result
record_result(tracker, t, duration, result) ==
    [last_used |-> t,
     request_count |-> tracker.request_count + 1,
     response_times |-> IF result.ok
                          THEN push_response_time(tracker.response_times, duration)
                          ELSE tracker.response_times,
     error_count |-> IF result.ok THEN tracker.error_count
                                  ELSE tracker.error_count + 1]

\* avg_response_time reporting an empty window as slower than any call.
avg_response_time_empty_slowest(tracker) ==
    IF Len(tracker.response_times) = 0 THEN 1000
    ELSE SeqSum(tracker.response_times) \div Len(tracker.response_times)

\* InstanceTracker::avg_response_time (integer division of the total)
avg_response_time(tracker) ==
    IF Len(tracker.response_times) = 0 THEN 0
    ELSE SeqSum(tracker.response_times) \div Len(tracker.response_times)

\* --------------------------------------------------------------- strategies
\* ScanMin moving to a later index on a key that is smaller or equal.
ScanMin_last(keys) ==
    LET RECURSIVE Go(_, _)
        Go(k, best) == IF k > Len(keys) THEN best
                       ELSE IF keys[k] <= keys[best] THEN Go(k + 1, k)
                       ELSE Go(k + 1, best)
    IN Go(2, 1)

\* The scan shared by the two deterministic strategies: start with index 1
\* (Rust index 0) and move to a later index only on a strictly smaller key.
\* keys[k] is the value compared for the k-th entry of the slice.
ScanMin(keys) ==
    LET RECURSIVE Go(_, _)
        Go(k, best) == IF k > Len(keys) THEN best
                       ELSE IF keys[k] < keys[best] THEN Go(k + 1, k)
                       ELSE Go(k + 1, best)
    IN Go(2, 1)

\* select_instance always returning the first entry of the slice.
select_instance_first(strat, ids, trks) == {1}

\* LoadBalancingStrategy::select_instance for the three strategies; ids is
\* the slice of eligible ids, the result is the set of indexes the strategy
\* may return (one index except for RandomStrategy).
select_instance(strat, ids, trks) ==
    IF strat = "lru"
      THEN { ScanMin([k \in 1..Len(ids) |-> trks[ids[k]].last_used]) }
    ELSE IF strat = "lowest_latency"
      THEN { ScanMin([k \in 1..Len(ids) |-> avg_response_time(trks[ids[k]])]) }
    ELSE 1..Len(ids)

\* ------------------------------------------------------------------ backoff
\* A u64 is kept as the set of its one-bits so that the width is exact.
\* The number a set of one-bits stands for (used below 2^6 only).
BitsValue(bits) ==
    LET RECURSIVE Go(_)
        Go(bs) == IF bs = {} THEN 0
                  ELSE LET b == CHOOSE c \in bs : TRUE IN 2^b + Go(bs \ {b})
    IN Go(bits)

\* The u64 product of two numbers that are each 0 or a power of two (all
\* that a power of 2 ever multiplies): the exponents add, and a one-bit at
\* position 64 or above is lost, which is the overflow.
mul_u64(x, y) ==
    [bits |-> { a + b : a \in x, b \in y } \cap (0..(U64Bits - 1)),
     overflow |-> \E a \in x, b \in y : a + b >= U64Bits]

\* 2_u64.pow(exp), by squaring as the standard library computes it:
\* [bits, overflow].  overflow says that some multiplication overflowed, which
\* is where a build with overflow checks panics and a build without them
\* goes on with the wrapped value.
pow2_u64(exp) ==
    LET RECURSIVE Go(_, _, _, _)
        Go(e, base, acc, ovf) ==
            LET sq == mul_u64(base, base)
                ac == mul_u64(acc, base)
            IN IF e % 2 = 1
                 THEN IF e = 1
                        THEN [bits |-> ac.bits, overflow |-> ovf \/ ac.overflow]
                        ELSE Go(e \div 2, sq.bits, ac.bits,
                                ovf \/ ac.overflow \/ sq.overflow)
                 ELSE Go(e \div 2, sq.bits, acc, ovf \/ sq.overflow)
    IN IF exp = 0 THEN [bits |-> {0}, overflow |-> FALSE]
       ELSE Go(exp, {1}, {0}, FALSE)

\* x.min(60) for a u64 x given by its bits.
min_cap(bits) ==
    IF \E b \in bits : b >= 6 THEN BackoffCapSecs
    ELSE Min(BitsValue(bits), BackoffCapSecs)

\* Duration::from_secs(2_u64.pow(attempts as u32).min(60)), in seconds.
wait_time(attempts) == min_cap(pow2_u64(attempts).bits)

\* ------------------------------------------------------------- registration
\* add_to_task_map replacing a task's routing list by the new id alone.
add_to_task_map_replacing(task_map, supported, id) ==
    [t \in (DOMAIN task_map) \cup supported |->
        IF t \in supported THEN <<id>> ELSE task_map[t]]

\* LlmManager::add_instance_to_manager: take the next id, append it to the
\* routing index entry of every supported task, insert the tracker and a zero
\* usage.  The HashMap gives the new key an unspecified place in its
\* iteration order.
add_to_task_map(task_map, supported, id) ==
    [t \in (DOMAIN task_map) \cup supported |->
        IF t \in supported
          THEN (IF t \in DOMAIN task_map THEN Append(task_map[t], id) ELSE <<id>>)
          ELSE task_map[t]]

\* Registration is explored for at most MaxInstances instances; a long retry
\* budget is explored with a single instance.
InstanceCap == IF max_retries > MaxRetries THEN 1 ELSE MaxInstances

add_instance_to_manager(enabled, supported) ==
    /\ phase = "build"
    /\ instance_counter < InstanceCap
    /\ LET id == instance_counter IN
         /\ instance_counter' = id + 1
         /\ instances' = [i \in 0..id |->
                IF i = id THEN [enabled |-> enabled, tasks |-> supported]
                          ELSE instances[i]]
         /\ tasks_to_instances' = add_to_task_map(tasks_to_instances, supported, id)
         /\ \E t \in ClockReadings :
              LET added == [i \in 0..id |->
                              IF i = id THEN new_tracker(t) ELSE trackers[i]]
                  held == HeldInstants(added, req)
              IN /\ trackers' = RenumberInstants(added, held)
                 /\ now' = LatestInstant(held)
         /\ tracker_order' \in Insertions(tracker_order, id)
         /\ total_usage' = [i \in 0..id |-> IF i = id THEN NoUsage ELSE total_usage[i]]
    /\ UNCHANGED <<library, settings, req, api>>

\* LlmManagerBuilder::build returns the manager; requests may now be made.
build ==
    /\ phase = "build"
    /\ phase' = "run"
    /\ UNCHANGED <<library, max_retries, strategy, overflow_checks, registry, trackers,
                   total_usage, now, req, api>>

\* ----------------------------------------------------------------- requests
\* The state of one generate_response call.  trail and sleeps are the
\* record of what the call has done so far: one trail entry per loop
\* iteration (the instance id returned with the outcome, whether an adapter
\* was invoked, the outcome, and attempts / failed_instances as they were
\* when the iteration began), one sleeps entry per backoff sleep.
NoResponse == ErrResponse(NoError)
IdleRequest ==
    [pc |-> "idle", task |-> NoTask, attempts |-> 0, failed_instances |-> <<>>,
     eligible |-> <<>>, selected |-> 0, response |-> NoResponse, instance_id |-> 0,
     start_time |-> 0, duration |-> 0, wait |-> 0, result |-> NoResponse,
     trail |-> <<>>, sleeps |-> <<>>, locks |-> {}]

\* from_generation_request with the failure marks of the requests made so
\* far carried into the new one.
from_generation_request_marks_shared(task) ==
    LET marked == UNION { { req[q].failed_instances[k] :
                              k \in 1..Len(req[q].failed_instances) } : q \in DOMAIN req }
        RECURSIVE AsSeq(_)
        AsSeq(ids) == IF ids = {} THEN <<>>
                      ELSE LET id == CHOOSE i \in ids : \A o \in ids : i <= o
                           IN <<id>> \o AsSeq(ids \ {id})
    IN [IdleRequest EXCEPT !.pc = "select", !.task = task, !.failed_instances = AsSeq(marked)]

\* LlmManagerRequest::from_generation_request, and the locals generate_response
\* sets up from it.
from_generation_request(task) ==
    [IdleRequest EXCEPT !.pc = "select", !.task = task]

\* while attempts <= max_retries
within_budget(attempts, retries) == attempts <= retries

\* if attempts > max_retries { return Err(error) }
budget_exhausted(attempts, retries) == attempts > retries

\* is_eligible without the test against the task's candidate list.
is_eligible_any_task(id, task, failed) ==
    /\ instances[id].enabled
    /\ ~Contains(failed, id)

\* is_eligible without the test of the enabled flag.
is_eligible_ignoring_enabled(id, task, failed) ==
    /\ task # NoTask => Contains(tasks_to_instances[task], id)
    /\ ~Contains(failed, id)

\* The filter of instance_selection: in the task's candidate list (when a
\* task is named), enabled, and not among the failed instances.
is_eligible(id, task, failed) ==
    /\ task # NoTask => Contains(tasks_to_instances[task], id)
    /\ instances[id].enabled
    /\ ~Contains(failed, id)

\* trackers_guard.iter().filter(..).collect(): the eligible ids in the
\* HashMap's iteration order.
eligible_instance_ids(task, failed) ==
    LET RECURSIVE Go(_)
        Go(k) == IF k > Len(tracker_order) THEN <<>>
                 ELSE IF is_eligible(tracker_order[k], task, failed)
                        THEN <<tracker_order[k]>> \o Go(k + 1)
                        ELSE Go(k + 1)
    IN Go(1)

\* selection_error reporting an empty registry as an ApiError.
selection_error_not_config(task, failed) ==
    IF DOMAIN trackers = {}
      THEN AdapterError("ApiError", "No LLM providers available")
    ELSE IF task # NoTask /\ task \notin DOMAIN tasks_to_instances
      THEN ConfigError("No providers available for task", task, 0)
    ELSE IF eligible_instance_ids(task, failed) = <<>>
      THEN ConfigError("No enabled providers available", task, Len(failed))
    ELSE NoError

\* selection_error without the return on an empty eligible list.
selection_error_empty_passed(task, failed) ==
    IF task # NoTask /\ task \notin DOMAIN tasks_to_instances
      THEN ConfigError("No providers available for task", task, 0)
    ELSE IF DOMAIN trackers = {}
      THEN ConfigError("No LLM providers available", NoTask, 0)
    ELSE NoError

\* The three early returns of instance_selection, NoError when none applies.
selection_error(task, failed) ==
    IF task # NoTask /\ task \notin DOMAIN tasks_to_instances
      THEN ConfigError("No providers available for task", task, 0)
    ELSE IF DOMAIN trackers = {}
      THEN ConfigError("No LLM providers available", NoTask, 0)
    ELSE IF eligible_instance_ids(task, failed) = <<>>
      THEN ConfigError("No enabled providers available", task, Len(failed))
    ELSE NoError

\* The manager's four tokio Mutexes.  locks is the set of those whose guard
\* a call holds: lock().await adds one once no other call holds it, the end
\* of the guard's scope (or an early return out of it) removes it.
Mutexes == {"trackers", "strategy", "tasks_to_instances", "total_usage"}
Unlocked(names) ==
    /\ \A q \in DOMAIN req : req[q].locks \cap names = {}
    /\ stream.locks \cap names = {}
lock(held, names) == held \cup names
drop_guards(held, names) == held \ names
\* A block that takes the guards in names and ends: what the call holds
\* after it.
scoped(held, names) == drop_guards(lock(held, names), names)
\* The guards of the first half of a selection: the routing index only for
\* a request that names a task, then the trackers.
selection_guards(task) ==
    IF task = NoTask THEN {"trackers"} ELSE {"tasks_to_instances", "trackers"}

TrailEntry(rq, id, invoked, response) ==
    [instance_id |-> id, invoked |-> invoked, response |-> response,
     attempts |-> rq.attempts, failed |-> rq.failed_instances]

\* A caller hands a request to generate_response (from generate_sequentially
\* or batch_generate).
start(r, task) ==
    /\ phase = "run"
    /\ req[r].pc = "idle"
    /\ req' = [req EXCEPT ![r] = from_generation_request(task)]
    /\ UNCHANGED <<library, settings, registry, trackers, total_usage, now, api>>

\* Loop head and the first half of instance_selection: candidate ids from
\* the routing index, then the eligible list under the trackers lock.
select_eligible(r) ==
    /\ req[r].pc = "select"
    /\ within_budget(req[r].attempts, max_retries) => Unlocked(selection_guards(req[r].task))
    /\ LET rq == req[r]
           err == selection_error(rq.task, rq.failed_instances)
       IN req' = [req EXCEPT ![r] =
            IF ~within_budget(rq.attempts, max_retries)
              THEN [rq EXCEPT !.pc = "done",
                     !.result = ErrResponse(ConfigError(
                         "No available providers after all retry attempts", NoTask, 0))]
            ELSE IF err # NoError
              THEN [rq EXCEPT !.pc = "classify", !.response = ErrResponse(err),
                     !.instance_id = 0,
                     !.trail = Append(@, TrailEntry(rq, 0, FALSE, ErrResponse(err))),
                     !.locks = scoped(@, selection_guards(rq.task))]
            ELSE [rq EXCEPT !.pc = "pick",
                     !.eligible = eligible_instance_ids(rq.task, rq.failed_instances),
                     !.locks = scoped(@, selection_guards(rq.task))]]
    /\ UNCHANGED <<library, settings, registry, trackers, total_usage, now, api>>

\* pick with the guards of the strategy block living on to the end of
\* instance_selection instead of the end of the block.
pick_guards_kept(r) ==
    /\ req[r].pc = "pick"
    /\ Unlocked({"trackers", "strategy"})
    /\ \E idx \in select_instance(strategy, req[r].eligible, trackers) :
       \E t \in ClockReadings :
         LET called == [req EXCEPT ![r].pc = "calling",
                                   ![r].selected = req[r].eligible[idx],
                                   ![r].start_time = t,
                                   ![r].locks = lock(@, {"trackers", "strategy"})]
             held == HeldInstants(trackers, called)
         IN /\ req' = RenumberStarts(called, held)
            /\ trackers' = RenumberInstants(trackers, held)
            /\ now' = LatestInstant(held)
    /\ UNCHANGED <<library, settings, registry, total_usage, api>>

\* eligible_instance_ids.iter().filter_map(|id| trackers_guard.get(id)...):
\* the slice handed to the strategy, the eligible ids that the trackers map
\* holds when the strategy block runs.
eligible_trackers(ids) == SelectSeq(ids, LAMBDA id : id \in DOMAIN trackers)

\* Second half of the selection: the strategy picks among the eligible ids
\* under the trackers and strategy locks; then start_time = Instant::now()
\* and the adapter is called.  Every strategy panics on an empty slice, and
\* the find(..).expect(..) that follows panics on an id that is not in the
\* eligible list.
pick(r) ==
    /\ req[r].pc = "pick"
    /\ Unlocked({"trackers", "strategy"})
    /\ LET slice == eligible_trackers(req[r].eligible) IN
       IF slice = <<>>
         THEN /\ req' = [req EXCEPT ![r].pc = "panicked",
                                     ![r].locks = scoped(@, {"trackers", "strategy"})]
              /\ UNCHANGED <<trackers, now>>
         ELSE \E idx \in select_instance(strategy, slice, trackers) :
              \E t \in ClockReadings :
                LET found == Contains(req[r].eligible, slice[idx])
                    called == [req EXCEPT ![r].pc = IF found THEN "calling" ELSE "panicked",
                                          ![r].selected = slice[idx],
                                          ![r].start_time = t,
                                          ![r].locks = scoped(@, {"trackers", "strategy"})]
                    held == HeldInstants(trackers, called)
                IN /\ req' = RenumberStarts(called, held)
                   /\ trackers' = RenumberInstants(trackers, held)
                   /\ now' = LatestInstant(held)
    /\ UNCHANGED <<library, settings, registry, total_usage, api>>

\* selected_provider_arc.generate(&request).await returns.
\* An adapter's generate answers ProviderDisabled exactly when its instance
\* is not enabled.
generate_may_return(id, response) ==
    IF instances[id].enabled THEN response # ProviderDisabled
    ELSE response = ProviderDisabled

adapter_return(r, response, duration) ==
    /\ req[r].pc = "calling"
    /\ generate_may_return(req[r].selected, response)
    /\ req' = [req EXCEPT ![r].pc = "record", ![r].response = response,
                 ![r].instance_id = req[r].selected, ![r].duration = duration,
                 ![r].trail = Append(@, TrailEntry(req[r], req[r].selected, TRUE, response))]
    /\ UNCHANGED <<library, settings, registry, trackers, total_usage, now, api>>

\* The metrics update under the trackers lock.  The call took time, so the
\* instant read here is later than the call's start_time.
record(r) ==
    /\ req[r].pc = "record"
    /\ Unlocked({"trackers"})
    /\ LET id == req[r].selected IN
       \E t \in ClockReadings :
         /\ t > req[r].start_time
         /\ LET recorded == [trackers EXCEPT ![id] =
                               record_result(@, t, req[r].duration, req[r].response)]
                 moved == [req EXCEPT ![r].pc =
                             IF req[r].response.ok /\ req[r].response.has_usage
                               THEN "usage" ELSE "classify",
                                      ![r].locks = scoped(@, {"trackers"})]
                 held == HeldInstants(recorded, moved)
            IN /\ trackers' = RenumberInstants(recorded, held)
               /\ req' = RenumberStarts(moved, held)
               /\ now' = LatestInstant(held)
    /\ UNCHANGED <<library, settings, registry, total_usage, api>>

\* The three += of update_instance_usage in their order.  With overflow
\* checks an overflowing += panics and the later ones are not executed;
\* without them the sum wraps.
add_usage(held, u, checks) ==
    LET p == add_u32(held.prompt, u.prompt)
        c == add_u32(held.completion, u.completion)
        t == add_u32(held.total, u.total)
    IN IF checks /\ p.overflow
         THEN [usage |-> held, panicked |-> TRUE]
       ELSE IF checks /\ c.overflow
         THEN [usage |-> [held EXCEPT !.prompt = p.value], panicked |-> TRUE]
       ELSE IF checks /\ t.overflow
         THEN [usage |-> [held EXCEPT !.prompt = p.value, !.completion = c.value],
               panicked |-> TRUE]
       ELSE [usage |-> TokenUsage(p.value, c.value, t.value), panicked |-> FALSE]

\* LlmManager::update_instance_usage under the usage lock.
update_instance_usage(r) ==
    /\ req[r].pc = "usage"
    /\ Unlocked({"total_usage"})
    /\ LET id == req[r].selected
           added == add_usage(total_usage[id], req[r].response.usage, overflow_checks)
       IN /\ total_usage' = [total_usage EXCEPT ![id] = added.usage]
          /\ req' = [req EXCEPT ![r].pc = IF added.panicked THEN "panicked" ELSE "classify",
                                  ![r].locks = scoped(@, {"total_usage"})]
    /\ UNCHANGED <<library, settings, registry, trackers, now, api>>

\* Option<T>: Absent is None.
Absent == [kind |-> "none"]
Some(v) == [kind |-> "some", value |-> v]

\* LlmManager::get_instance_usage: usage_map.get(&instance_id).cloned()
get_instance_usage(id) ==
    IF id \in DOMAIN total_usage THEN Some(total_usage[id]) ELSE Absent

\* LlmManager::get_total_usage: the fold of += over the values of the usage
\* map, from zero.  The order of the values does not change the outcome:
\* the wrapped sum is the same and one order overflows exactly when all do.
get_total_usage ==
    LET RECURSIVE Go(_, _)
        Go(k, acc) ==
            IF k > Len(tracker_order) \/ acc.panicked THEN acc
            ELSE Go(k + 1, add_usage(acc.usage, total_usage[tracker_order[k]],
                                     overflow_checks))
    IN Go(1, [usage |-> NoUsage, panicked |-> FALSE])

\* mark_failed with the push left out.
mark_failed_never(failed, id) == failed

\* attempts_after_rate_limit with the increment left out.
attempts_after_rate_limit_forgotten(attempts) == attempts

\* attempts_after_error with the increment left out.
attempts_after_error_forgotten(attempts) == attempts

\* failed_instances.push(instance_id) after an error that is not a rate limit.
mark_failed(failed, id) == Append(failed, id)

\* attempts += 1 in the rate-limit branch, after the sleep.
attempts_after_rate_limit(attempts) == attempts + 1

\* attempts += 1 in the branch of the other errors.
attempts_after_error(attempts) == attempts + 1

\* after_failure returning a fixed error instead of the iteration's own.
after_failure_generic_error(rq, attempts, failed) ==
    IF attempts > max_retries
      THEN [rq EXCEPT !.pc = "done", !.attempts = attempts,
                      !.failed_instances = failed,
                      !.result = ErrResponse(ConfigError(
                          "No available providers after all retry attempts", NoTask, 0))]
      ELSE [rq EXCEPT !.pc = "select", !.attempts = attempts,
                      !.failed_instances = failed]

\* The end of a failed iteration: attempts has been incremented; return the
\* error when the budget is spent, else go round the loop again.
after_failure(rq, attempts, failed) ==
    IF budget_exhausted(attempts, max_retries)
      THEN [rq EXCEPT !.pc = "done", !.attempts = attempts,
                      !.failed_instances = failed, !.result = rq.response]
      ELSE [rq EXCEPT !.pc = "select", !.attempts = attempts,
                      !.failed_instances = failed]

\* The match on attempt_result in generate_response.
classify(r) ==
    /\ req[r].pc = "classify"
    /\ LET rq == req[r] IN
       req' = [req EXCEPT ![r] =
         IF rq.response.ok
           THEN [rq EXCEPT !.pc = "done", !.result = rq.response]
         ELSE IF rq.response.error.kind = "RateLimit"
           THEN (IF pow2_u64(rq.attempts).overflow /\ overflow_checks
                   THEN [rq EXCEPT !.pc = "panicked"]
                   ELSE [rq EXCEPT !.pc = "sleeping", !.wait = wait_time(rq.attempts),
                           !.sleeps = Append(@, [attempts |-> rq.attempts,
                                                 secs |-> wait_time(rq.attempts)])])
         ELSE after_failure(rq, attempts_after_error(rq.attempts),
                            mark_failed(rq.failed_instances, rq.instance_id))]
    /\ UNCHANGED <<library, settings, registry, trackers, total_usage, now, api>>

\* tokio::time::sleep(wait_time) is over: attempts += 1 and the budget check.
wake(r) ==
    /\ req[r].pc = "sleeping"
    /\ req' = [req EXCEPT ![r] =
                 after_failure(req[r], attempts_after_rate_limit(req[r].attempts),
                               req[r].failed_instances)]
    /\ UNCHANGED <<library, settings, registry, trackers, total_usage, now, api>>

\* ---------------------------------------------------------- list operations
\* impl Display for LlmError: the prefix of the variant, then its message.
DisplayPrefix(kind) ==
    CASE kind = "RequestError" -> "Request error: "
      [] kind = "ApiError" -> "API error: "
      [] kind = "RateLimit" -> "Rate limit error: "
      [] kind = "ParseError" -> "Parse error: "
      [] kind = "ProviderDisabled" -> "Provider disabled: "
      [] kind = "ConfigError" -> "Configuration error: "
to_string(e) == <<DisplayPrefix(e.kind), e.msg, e.task, e.excluded>>

\* Option<String>::None
None == <<>>
\* The match on generate_response's result in both list operations.
to_manager_response(result) ==
    IF result.ok
      THEN [content |-> result.content, success |-> TRUE, error |-> None]
      ELSE [content |-> "", success |-> FALSE, error |-> to_string(result.error)]

\* join_all keeps every output with the index of its future.  The outputs
\* in completion order, without regard to the index.
outputs_as_completed(outs) == [k \in 1..Len(outs) |-> outs[k].output]

\* What join_all yields: at position k the output of the k-th future.
outputs_by_index(outs) ==
    [k \in 1..Len(outs) |->
        LET at == CHOOSE j \in 1..Len(outs) : outs[j].index = k IN outs[at].output]

\* The caller invokes one public operation with its argument.
call(operation, list) ==
    /\ phase = "run"
    /\ op = "none"
    /\ op' = operation
    /\ requests' = list
    /\ req' = IF operation = "generate_stream" THEN <<>>
               ELSE [r \in 1..Len(list) |-> IdleRequest]
    /\ UNCHANGED <<library, settings, registry, trackers, total_usage, now, outputs,
                   responses, returned, stream>>

\* sequential_next without waiting for the request before.
sequential_next_unawaited(r) ==
    /\ op = "generate_sequentially"
    /\ start(r, requests[r])

\* generate_sequentially, one loop iteration up to the await: the next
\* request of the list is converted and handed to generate_response.
sequential_next(r) ==
    /\ op = "generate_sequentially"
    /\ r = Len(responses) + 1
    /\ r <= Len(requests)
    /\ start(r, requests[r])

\* generate_sequentially, the rest of the iteration: responses.push(..).
sequential_push(r) ==
    /\ op = "generate_sequentially"
    /\ req[r].pc = "done"
    /\ responses' = Append(responses, to_manager_response(req[r].result))
    /\ req' = [req EXCEPT ![r].pc = "returned"]
    /\ UNCHANGED <<library, settings, registry, trackers, total_usage, now, op, requests,
                   outputs, returned, stream>>

\* generate_sequentially: the loop is over, responses is returned.
sequential_return ==
    /\ op = "generate_sequentially"
    /\ ~returned
    /\ Len(responses) = Len(requests)
    /\ returned' = TRUE
    /\ UNCHANGED <<library, settings, registry, trackers, total_usage, now, req, op,
                   requests, outputs, responses, stream>>

\* batch_generate: join_all polls a future for the first time.
batch_poll(r) ==
    /\ op = "batch_generate"
    /\ start(r, requests[r])

\* batch_generate: a future completes; join_all keeps its output with the
\* index of the future.
batch_output(r) ==
    /\ op = "batch_generate"
    /\ req[r].pc = "done"
    /\ outputs' = Append(outputs, [index |-> r,
                                   output |-> to_manager_response(req[r].result)])
    /\ req' = [req EXCEPT ![r].pc = "returned"]
    /\ UNCHANGED <<library, settings, registry, trackers, total_usage, now, op, requests,
                   responses, returned, stream>>

\* batch_generate: every future has completed, join_all yields the outputs
\* in the order of the futures.
join_all ==
    /\ op = "batch_generate"
    /\ ~returned
    /\ \A r \in DOMAIN req : req[r].pc = "returned"
    /\ responses' = outputs_by_index(outputs)
    /\ returned' = TRUE
    /\ UNCHANGED <<library, settings, registry, trackers, total_usage, now, req, op,
                   requests, outputs, stream>>

\* ---------------------------------------------------------------- streaming
\* The state of one generate_stream call; series is what the calls made
\* before it on the same manager came to.
IdleStream ==
    [pc |-> "idle", task |-> NoTask, eligible |-> <<>>, selected |-> 0,
     passes |-> 0, invoked |-> <<>>, chunks |-> 0, result |-> NoResponse,
     locks |-> {}, series |-> <<>>]

\* What an adapter's generate_stream can return: the stream, or an error.
StreamOpened == OkResponse("stream", FALSE, NoUsage)
generate_stream_results(id) ==
    IF instances[id].enabled
      THEN {StreamOpened} \cup { ErrResponse(e) : e \in AdapterErrors }
      ELSE {ProviderDisabled}

\* The three early returns of select_streaming_instance.
streaming_selection_error(task) ==
    IF task # NoTask /\ task \notin DOMAIN tasks_to_instances
      THEN ConfigError("No providers available for task", task, 0)
    ELSE IF DOMAIN trackers = {}
      THEN ConfigError("No LLM providers available", NoTask, 0)
    ELSE IF eligible_instance_ids(task, <<>>) = <<>>
      THEN ConfigError("No enabled providers available", task, 0)
    ELSE NoError

\* generate_stream up to the selection: the request is converted.
generate_stream(task) ==
    /\ op = "generate_stream"
    /\ requests = <<task>>
    /\ stream.pc = "idle"
    /\ stream' = [stream EXCEPT !.pc = "select", !.task = from_generation_request(task).task]
    /\ UNCHANGED <<library, settings, registry, trackers, total_usage, now, req, op,
                   requests, outputs, responses, returned>>

\* select_streaming_instance, first half: candidate ids and the eligible
\* list under the trackers lock; an early return is the `?` of generate_stream.
select_streaming_eligible ==
    /\ stream.pc = "select"
    /\ Unlocked(selection_guards(stream.task))
    /\ LET err == streaming_selection_error(stream.task)
       IN stream' =
            IF err # NoError
              THEN [stream EXCEPT !.pc = "done", !.passes = @ + 1,
                                  !.result = ErrResponse(err),
                                  !.locks = scoped(@, selection_guards(stream.task))]
              ELSE [stream EXCEPT !.pc = "pick", !.passes = @ + 1,
                                  !.eligible = eligible_instance_ids(stream.task, <<>>),
                                  !.locks = scoped(@, selection_guards(stream.task))]
    /\ UNCHANGED <<library, settings, registry, trackers, total_usage, now, req, op,
                   requests, outputs, responses, returned>>

\* select_streaming_instance, second half: the strategy picks; then
\* generate_stream builds the request and calls the adapter.
select_streaming_instance ==
    /\ stream.pc = "pick"
    /\ Unlocked({"trackers", "strategy"})
    /\ LET slice == eligible_trackers(stream.eligible) IN
       IF slice = <<>>
         THEN stream' = [stream EXCEPT !.pc = "panicked",
                                       !.locks = scoped(@, {"trackers", "strategy"})]
         ELSE \E idx \in select_instance(strategy, slice, trackers) :
                stream' =
                  IF Contains(stream.eligible, slice[idx])
                    THEN [stream EXCEPT !.pc = "invoking",
                                        !.selected = slice[idx],
                                        !.invoked = Append(@, slice[idx]),
                                        !.locks = scoped(@, {"trackers", "strategy"})]
                    ELSE [stream EXCEPT !.pc = "panicked",
                                        !.locks = scoped(@, {"trackers", "strategy"})]
    /\ UNCHANGED <<library, settings, registry, trackers, total_usage, now, req, op,
                   requests, outputs, responses, returned>>

\* stream_return going back to the selection when the adapter failed.
stream_return_retrying(result) ==
    /\ stream.pc = "invoking"
    /\ result \in generate_stream_results(stream.selected)
    /\ stream' = IF result.ok THEN [stream EXCEPT !.pc = "done", !.result = result]
                 ELSE [stream EXCEPT !.pc = "select"]
    /\ UNCHANGED <<library, settings, registry, trackers, total_usage, now, req, op,
                   requests, outputs, responses, returned>>

\* generate_stream recording the outcome of the adapter call on the tracker
\* as instance_selection does.
stream_return_recording(result) ==
    /\ stream.pc = "invoking"
    /\ result \in generate_stream_results(stream.selected)
    /\ stream' = [stream EXCEPT !.pc = "done", !.result = result]
    /\ LET recorded == [trackers EXCEPT ![stream.selected] =
                          record_result(@, now + 1, 1, result)]
           held == HeldInstants(recorded, req)
       IN /\ trackers' = RenumberInstants(recorded, held)
          /\ now' = LatestInstant(held)
    /\ UNCHANGED <<library, settings, registry, total_usage, req, op,
                   requests, outputs, responses, returned>>

\* selected_instance.generate_stream(&llm_request).await is the value of
\* generate_stream.
stream_return(result) ==
    /\ stream.pc = "invoking"
    /\ result \in generate_stream_results(stream.selected)
    /\ stream' = [stream EXCEPT !.pc = "done", !.result = result]
    /\ UNCHANGED <<library, settings, registry, trackers, total_usage, now, req, op,
                   requests, outputs, responses, returned>>

\* The caller reads a chunk from the stream it was given.
next_chunk ==
    /\ stream.pc = "done"
    /\ stream.result.ok
    /\ stream.chunks < MaxChunks
    /\ stream' = [stream EXCEPT !.chunks = @ + 1]
    /\ UNCHANGED <<library, settings, registry, trackers, total_usage, now, req, op,
                   requests, outputs, responses, returned>>

\* The stream the caller was handed yields an error item: the manager is
\* not involved, the item goes to the caller as the adapter made it.
chunk_error ==
    /\ stream.pc = "done"
    /\ stream.result.ok
    /\ stream' = [stream EXCEPT !.pc = "failed"]
    /\ UNCHANGED <<library, settings, registry, trackers, total_usage, now, req, op,
                   requests, outputs, responses, returned>>

\* The caller is through with one generate_stream call (it returned an
\* error, or a stream that was read or failed or is dropped) and calls
\* generate_stream again: the request is converted, up to the selection.
generate_stream_again(task) ==
    /\ op = "generate_stream"
    /\ stream.pc \in {"done", "failed"}
    /\ Len(stream.series) < MaxStreamCalls - 1
    /\ requests' = <<task>>
    /\ stream' = [IdleStream EXCEPT
                    !.pc = "select",
                    !.task = from_generation_request(task).task,
                    !.series = Append(stream.series,
                                      [task |-> stream.task, invoked |-> stream.invoked,
                                       result |-> stream.result,
                                       failed |-> stream.pc = "failed"])]
    /\ UNCHANGED <<library, settings, registry, trackers, total_usage, now, req, op,
                   outputs, responses, returned>>

\* ------------------------------------------------------------ specification
\* ------------------------------------------------------------ construction
\* Strings whose characters matter (they are lower-cased or searched) are
\* sequences of one-character strings.
UpperCase == <<"A", "B", "C", "D", "E", "F", "G", "H", "I", "J", "K", "L", "M",
               "N", "O", "P", "Q", "R", "S", "T", "U", "V", "W", "X", "Y", "Z">>
LowerCase == <<"a", "b", "c", "d", "e", "f", "g", "h", "i", "j", "k", "l", "m",
               "n", "o", "p", "q", "r", "s", "t", "u", "v", "w", "x", "y", "z">>
\* str::to_lowercase
to_lowercase(s) ==
    [k \in 1..Len(s) |->
        IF \E c \in 1..Len(UpperCase) : UpperCase[c] = s[k]
          THEN LowerCase[CHOOSE c \in 1..Len(UpperCase) : UpperCase[c] = s[k]]
          ELSE s[k]]

\* default_strategy() and default_max_retries() of the settings table
default_strategy == <<"l", "r", "u">>
default_max_retries == 5
\* Config::default()
DefaultConfig ==
    [strategy |-> default_strategy, max_retries |-> default_max_retries,
     tasks |-> <<>>, providers |-> <<>>]

\* The LlmResult<LlmManager> of a construction, before it has returned and
\* after.
NotBuilt == [state |-> "none", error |-> NoError]
BuiltOk == [state |-> "Ok", error |-> NoError]
BuiltErr(e) == [state |-> "Err", error |-> e]

\* No HTTP response, parameter merge or response body under study.
NoHttp == [provider |-> "none", status |-> 0, body |-> <<>>,
           result |-> NoError, classified |-> NoError]
NoMerge == [state |-> "none"]
NoSse == [state |-> "none"]
IdleAdapters ==
    /\ http = NoHttp
    /\ merge = NoMerge
    /\ sse = NoSse
\* No tracker and no lock traffic under study on their own.
NoLocking == [state |-> "none"]
IdleStudies ==
    /\ history = <<>>
    /\ locking = NoLocking

\* No builder and no configuration in play: the manager is put together by
\* add_instance_to_manager calls.
IdleLibrary ==
    /\ IdleAdapters
    /\ IdleStudies
    /\ defined_tasks = <<>>
    /\ providers_to_build = <<>>
    /\ builder_calls = <<>>
    /\ config = DefaultConfig
    /\ built = NotBuilt

RetryChoices == (0..MaxRetries) \cup {LongRetries}

Init ==
    /\ phase = "build"
    /\ max_retries \in RetryChoices
    /\ strategy \in (IF max_retries > MaxRetries THEN {"lru"} ELSE Strategies)
    /\ overflow_checks \in (IF max_retries > MaxRetries THEN BOOLEAN ELSE {FALSE})
    /\ instances = <<>>
    /\ instance_counter = 0
    /\ tasks_to_instances = <<>>
    /\ trackers = <<>>
    /\ tracker_order = <<>>
    /\ total_usage = <<>>
    /\ now = 0
    /\ req = [r \in Requests |-> IdleRequest]
    /\ op = "generate_response"
    /\ requests = <<>>
    /\ outputs = <<>>
    /\ responses = <<>>
    /\ returned = FALSE
    /\ stream = IdleStream
    /\ IdleLibrary

Next ==
    \/ \E enabled \in BOOLEAN, supported \in (SUBSET Tasks) \ {{}} :
         add_instance_to_manager(enabled, supported)
    \/ build
    \/ \E r \in Requests, task \in Tasks \cup {NoTask} : start(r, task)
    \/ \E r \in Requests : select_eligible(r)
    \/ \E r \in Requests : pick(r)
    \/ \E r \in Requests, response \in AdapterResults \cup {ProviderDisabled} :
         \E duration \in ElapsedOf(response) : adapter_return(r, response, duration)
    \/ \E r \in Requests : record(r)
    \/ \E r \in Requests : update_instance_usage(r)
    \/ \E r \in Requests : classify(r)
    \/ \E r \in Requests : wake(r)

Spec == Init /\ [][Next]_vars

\* The steps of one generate_response call.  Every adapter call returns and
\* every backoff sleep ends, and a lock that stays free is granted, so a
\* call that can take a step does take one.
generate_response(r) ==
    \/ select_eligible(r)
    \/ pick(r)
    \/ \E response \in AdapterResults \cup {ProviderDisabled} :
         \E duration \in ElapsedOf(response) : adapter_return(r, response, duration)
    \/ record(r)
    \/ update_instance_usage(r)
    \/ classify(r)
    \/ wake(r)

SpecLive == Init /\ [][Next]_vars /\ \A r \in Requests : WF_vars(generate_response(r))

\* The adapter outcomes explored under the list operations: a success
\* with usage, a failure that excludes the instance, and a rate limit.
ApiResults ==
    { OkResponse("ok", TRUE, u) : u \in Usages }
      \cup { ErrResponse(AdapterError("ApiError", "x")),
              ErrResponse(AdapterError("RateLimit", "slow down")) }
ApiDurations == {1}

\* The public operations on a built manager: generate_sequentially,
\* batch_generate and generate_stream.
Operations == {"generate_sequentially", "batch_generate", "generate_stream"}
ListBound(operation) ==
    IF operation = "generate_sequentially" THEN MaxSequential ELSE MaxBatch
\* The lists of requests handed to an operation.  Without retries: every
\* list of at most two requests naming "chat" or no task and, under LRU,
\* the longer lists of requests for "chat".  With retries: the lists of at
\* most two requests for "chat".  generate_stream takes one request.
RequestLists(operation) ==
    LET bound == ListBound(operation)
        mixed == UNION { [1..n -> {"chat", NoTask}] : n \in 0..Min(2, bound) }
        chats(longest) == { [k \in 1..n |-> "chat"] : n \in 0..longest }
    IN IF operation = "generate_stream" THEN [1..1 -> Tasks \cup {NoTask}]
       ELSE IF max_retries > 0 THEN chats(Min(2, bound))
       ELSE IF strategy = "lru" THEN mixed \cup chats(bound)
       ELSE mixed

InitApi ==
    /\ phase = "build"
    /\ max_retries \in 0..MaxApiRetries
    /\ strategy \in Strategies
    /\ overflow_checks = FALSE
    /\ instances = <<>>
    /\ instance_counter = 0
    /\ tasks_to_instances = <<>>
    /\ trackers = <<>>
    /\ tracker_order = <<>>
    /\ total_usage = <<>>
    /\ now = 0
    /\ req = <<>>
    /\ op = "none"
    /\ requests = <<>>
    /\ outputs = <<>>
    /\ responses = <<>>
    /\ returned = FALSE
    /\ stream = IdleStream
    /\ IdleLibrary

NextApi ==
    \/ \E enabled \in BOOLEAN, supported \in { {t} : t \in Tasks } :
         add_instance_to_manager(enabled, supported)
    \/ build
    \/ \E operation \in Operations : \E list \in RequestLists(operation) :
         call(operation, list)
    \/ \E r \in DOMAIN req : sequential_next(r)
    \/ \E r \in DOMAIN req : sequential_push(r)
    \/ sequential_return
    \/ \E r \in DOMAIN req : batch_poll(r)
    \/ \E r \in DOMAIN req : batch_output(r)
    \/ join_all
    \/ \E r \in DOMAIN req : select_eligible(r)
    \/ \E r \in DOMAIN req : pick(r)
    \/ \E r \in DOMAIN req, response \in ApiResults \cup {ProviderDisabled} :
         \E duration \in ApiDurations : adapter_return(r, response, duration)
    \/ \E r \in DOMAIN req : record(r)
    \/ \E r \in DOMAIN req : update_instance_usage(r)
    \/ \E r \in DOMAIN req : classify(r)
    \/ \E r \in DOMAIN req : wake(r)
    \/ \E task \in Tasks \cup {NoTask} : generate_stream(task)
    \/ select_streaming_eligible
    \/ select_streaming_instance
    \/ \E result \in {StreamOpened, ProviderDisabled} \cup { ErrResponse(e) : e \in AdapterErrors } :
         stream_return(result)
    \/ next_chunk

SpecApi == InitApi /\ [][NextApi]_vars

\* The manager used through generate_sequentially only.
NextSequential ==
    \/ \E enabled \in BOOLEAN, supported \in { {t} : t \in Tasks } :
         add_instance_to_manager(enabled, supported)
    \/ build
    \/ \E list \in RequestLists("generate_sequentially") :
         call("generate_sequentially", list)
    \/ \E r \in DOMAIN req : sequential_next(r)
    \/ \E r \in DOMAIN req : sequential_push(r)
    \/ sequential_return
    \/ \E r \in DOMAIN req : select_eligible(r)
    \/ \E r \in DOMAIN req : pick(r)
    \/ \E r \in DOMAIN req, response \in ApiResults \cup {ProviderDisabled} :
         \E duration \in ApiDurations : adapter_return(r, response, duration)
    \/ \E r \in DOMAIN req : record(r)
    \/ \E r \in DOMAIN req : update_instance_usage(r)
    \/ \E r \in DOMAIN req : classify(r)
    \/ \E r \in DOMAIN req : wake(r)

SpecSequential == InitApi /\ [][NextSequential]_vars

\* The manager used through batch_generate only.
NextBatch ==
    \/ \E enabled \in BOOLEAN, supported \in { {t} : t \in Tasks } :
         add_instance_to_manager(enabled, supported)
    \/ build
    \/ \E list \in RequestLists("batch_generate") : call("batch_generate", list)
    \/ \E r \in DOMAIN req : batch_poll(r)
    \/ \E r \in DOMAIN req : batch_output(r)
    \/ join_all
    \/ \E r \in DOMAIN req : select_eligible(r)
    \/ \E r \in DOMAIN req : pick(r)
    \/ \E r \in DOMAIN req, response \in ApiResults \cup {ProviderDisabled} :
         \E duration \in ApiDurations : adapter_return(r, response, duration)
    \/ \E r \in DOMAIN req : record(r)
    \/ \E r \in DOMAIN req : update_instance_usage(r)
    \/ \E r \in DOMAIN req : classify(r)
    \/ \E r \in DOMAIN req : wake(r)

SpecBatch == InitApi /\ [][NextBatch]_vars

\* The manager used through generate_stream only, with every registry of
\* at most MaxInstances instances.
NextStream ==
    \/ \E enabled \in BOOLEAN, supported \in (SUBSET Tasks) \ {{}} :
         add_instance_to_manager(enabled, supported)
    \/ build
    \/ \E list \in RequestLists("generate_stream") : call("generate_stream", list)
    \/ \E task \in Tasks \cup {NoTask} : generate_stream(task)
    \/ select_streaming_eligible
    \/ select_streaming_instance
    \/ \E result \in {StreamOpened, ProviderDisabled} \cup { ErrResponse(e) : e \in AdapterErrors } :
         stream_return(result)
    \/ next_chunk

SpecStream == InitApi /\ [][NextStream]_vars

\* The manager used through generate_stream only, one call after another.
NextStreamSeries ==
    \/ \E enabled \in BOOLEAN, supported \in (SUBSET Tasks) \ {{}} :
         add_instance_to_manager(enabled, supported)
    \/ build
    \/ \E list \in RequestLists("generate_stream") : call("generate_stream", list)
    \/ \E task \in Tasks \cup {NoTask} : generate_stream(task)
    \/ select_streaming_eligible
    \/ select_streaming_instance
    \/ \E result \in {StreamOpened, ProviderDisabled} \cup { ErrResponse(e) : e \in AdapterErrors } :
         stream_return(result)
    \/ next_chunk
    \/ chunk_error
    \/ \E task \in Tasks \cup {NoTask} : generate_stream_again(task)

SpecStreamSeries == InitApi /\ [][NextStreamSeries]_vars

\* One tracker on its own: a manager with a single instance whose tracker
\* records one result after another.
InitTracker ==
    /\ phase = "run"
    /\ max_retries = 0
    /\ strategy = "lru"
    /\ overflow_checks = FALSE
    /\ instances = [i \in 0..0 |-> [enabled |-> TRUE, tasks |-> {"chat"}]]
    /\ instance_counter = 1
    /\ tasks_to_instances = add_to_task_map(<<>>, {"chat"}, 0)
    /\ trackers = [i \in 0..0 |-> new_tracker(0)]
    /\ tracker_order = <<0>>
    /\ total_usage = [i \in 0..0 |-> NoUsage]
    /\ now = 0
    /\ req = <<>>
    /\ op = "none"
    /\ requests = <<>>
    /\ outputs = <<>>
    /\ responses = <<>>
    /\ returned = FALSE
    /\ stream = IdleStream
    /\ IdleLibrary

\* tracker.record_result(duration, &result) on the tracker of instance 0.
tracker_record_result(result, duration) ==
    /\ trackers[0].request_count < MaxRecords
    /\ \E t \in ClockReadings :
         LET recorded == [trackers EXCEPT ![0] = record_result(@, t, duration, result)]
             held == HeldInstants(recorded, req)
         IN /\ trackers' = RenumberInstants(recorded, held)
            /\ now' = LatestInstant(held)
    /\ history' = Append(history, [ok |-> result.ok, duration |-> duration])
    /\ UNCHANGED <<construction, adapters, locking, settings, registry, total_usage,
                   req, api>>

NextTracker ==
    \E result \in AdapterResults : \E duration \in ElapsedOf(result) :
        tracker_record_result(result, duration)

SpecTracker == InitTracker /\ [][NextTracker]_vars

\* Usage accounting with large token counts: enabled instances supporting
\* "chat" serve a list of requests one after another, and an adapter may
\* report a usage of 2^31 tokens.
UsageResults ==
    { OkResponse("ok", TRUE, u) : u \in Usages \cup {LargeUsage} }
      \cup { OkResponse("ok", FALSE, NoUsage), ErrResponse(AdapterError("ApiError", "x")) }

InitUsage ==
    /\ phase = "build"
    /\ max_retries = 0
    /\ strategy \in Strategies
    /\ overflow_checks \in BOOLEAN
    /\ instances = <<>>
    /\ instance_counter = 0
    /\ tasks_to_instances = <<>>
    /\ trackers = <<>>
    /\ tracker_order = <<>>
    /\ total_usage = <<>>
    /\ now = 0
    /\ req = <<>>
    /\ op = "none"
    /\ requests = <<>>
    /\ outputs = <<>>
    /\ responses = <<>>
    /\ returned = FALSE
    /\ stream = IdleStream
    /\ IdleLibrary

NextUsage ==
    \/ add_instance_to_manager(TRUE, {"chat"})
    \/ build
    \/ \E n \in 0..MaxUsageRequests :
         call("generate_sequentially", [k \in 1..n |-> "chat"])
    \/ \E r \in DOMAIN req : sequential_next(r)
    \/ \E r \in DOMAIN req : sequential_push(r)
    \/ sequential_return
    \/ \E r \in DOMAIN req : select_eligible(r)
    \/ \E r \in DOMAIN req : pick(r)
    \/ \E r \in DOMAIN req, response \in UsageResults :
         \E duration \in ApiDurations : adapter_return(r, response, duration)
    \/ \E r \in DOMAIN req : record(r)
    \/ \E r \in DOMAIN req : update_instance_usage(r)
    \/ \E r \in DOMAIN req : classify(r)

SpecUsage == InitUsage /\ [][NextUsage]_vars

\* A strategy on its own: the trackers of up to MaxSlice enabled instances
\* in any state of last_used and latency window, handed to select_instance
\* as a slice in any order by a request that has reached the selection.
SliceOrders(n) ==
    { f \in [1..n -> 0..(n - 1)] : \A a, b \in 1..n : f[a] = f[b] => a = b }
Windows == UNION { [1..n -> Durations] : n \in 0..MaxWindow }
TrackerStates ==
    { [last_used |-> t, response_times |-> w, request_count |-> Len(w), error_count |-> 0] :
        t \in 0..(MaxSlice - 1), w \in Windows }

InitStrategy ==
    /\ phase = "run"
    /\ max_retries = 0
    /\ strategy \in {"lru", "lowest_latency"}
    /\ overflow_checks = FALSE
    /\ instance_counter \in 1..MaxSlice
    /\ instances = [i \in 0..(instance_counter - 1) |-> [enabled |-> TRUE, tasks |-> {"chat"}]]
    /\ tasks_to_instances = [t \in {"chat"} |-> [k \in 1..instance_counter |-> k - 1]]
    /\ \E drawn \in [0..(instance_counter - 1) -> TrackerStates] :
         trackers = RenumberInstants(drawn, HeldInstants(drawn, <<>>))
    /\ tracker_order \in SliceOrders(instance_counter)
    /\ total_usage = [i \in 0..(instance_counter - 1) |-> NoUsage]
    /\ now = LatestInstant(HeldInstants(trackers, <<>>))
    /\ req = <<[from_generation_request(NoTask) EXCEPT
                   !.pc = "pick", !.eligible = eligible_instance_ids(NoTask, <<>>)]>>
    /\ op = "generate_response"
    /\ requests = <<>>
    /\ outputs = <<>>
    /\ responses = <<>>
    /\ returned = FALSE
    /\ stream = IdleStream
    /\ IdleLibrary

NextStrategy == \E r \in DOMAIN req : pick(r)

SpecStrategy == InitStrategy /\ [][NextStrategy]_vars

\* ------------------------------------------------------------------ builder
\* A TaskDefinition: its name and the max_tokens among its parameters (0 when
\* the parameter is not set).
TaskDefinition(name, max_tokens) == [name |-> name, max_tokens |-> max_tokens]
TaskDefinitions == { TaskDefinition(name, m) : name \in Tasks, m \in {100, 200} }

\* HashMap::insert: the value under an existing key is replaced.
insert(map, key, value) ==
    [k \in (DOMAIN map) \cup {key} |-> IF k = key THEN value ELSE map[k]]

\* The names of a Vec<String> as the key set of the instance's task map.
NamesOf(names) == { names[k] : k \in 1..Len(names) }

\* A build that never finds an undefined task.
first_undefined_none(defined, providers) == NoTask

\* The two loops of build over the providers and their task names: the
\* first name that defined_tasks.get does not find, NoTask when all are found.
first_undefined(defined, providers) ==
    LET missing(p) == { k \in 1..Len(providers[p].supported_task_names) :
                          providers[p].supported_task_names[k] \notin DOMAIN defined }
        failing == { p \in 1..Len(providers) : missing(p) # {} }
    IN IF failing = {} THEN NoTask
       ELSE LET p == CHOOSE q \in failing : \A o \in failing : q <= o
                k == CHOOSE j \in missing(p) : \A o \in missing(p) : j <= o
            IN providers[p].supported_task_names[k]

\* manager.add_instance called once for each provider in order, on a manager
\* that has no instance yet: provider p gets id p - 1.
RECURSIVE task_map_of(_, _)
task_map_of(providers, n) ==
    IF n = 0 THEN <<>>
    ELSE add_to_task_map(task_map_of(providers, n - 1), providers[n].tasks, n - 1)

add_instances(providers) ==
    LET n == Len(providers) IN
    /\ instance_counter' = n
    /\ instances' = [i \in 0..(n - 1) |->
                       [enabled |-> providers[i + 1].enabled, tasks |-> providers[i + 1].tasks]]
    /\ tasks_to_instances' = task_map_of(providers, n)
    /\ \E created \in [0..(n - 1) -> 0..(n - 1)] :
         /\ \A i, j \in 0..(n - 1) : i <= j => created[i] <= created[j]
         /\ LET added == [i \in 0..(n - 1) |-> new_tracker(created[i])]
                held == HeldInstants(added, req)
            IN /\ trackers' = RenumberInstants(added, held)
               /\ now' = LatestInstant(held)
    /\ tracker_order' \in SliceOrders(n)
    /\ total_usage' = [i \in 0..(n - 1) |-> NoUsage]

CanCall == built = NotBuilt /\ Len(builder_calls) < MaxBuilderCalls

\* LlmManagerBuilder::define_task
define_task(task_def) ==
    /\ CanCall
    /\ defined_tasks' = insert(defined_tasks, task_def.name, task_def)
    /\ builder_calls' = Append(builder_calls, [method |-> "define_task", name |-> task_def.name])
    /\ UNCHANGED <<settings, registry, trackers, total_usage, now, req, api,
                   providers_to_build, config, built, adapters, studies>>

\* LlmManagerBuilder::add_instance
add_instance ==
    /\ CanCall
    /\ providers_to_build' =
         Append(providers_to_build, [supported_task_names |-> <<>>, enabled |-> TRUE])
    /\ builder_calls' = Append(builder_calls, [method |-> "add_instance", name |-> NoTask])
    /\ UNCHANGED <<settings, registry, trackers, total_usage, now, req, api,
                   defined_tasks, config, built, adapters, studies>>

\* LlmManagerBuilder::supports; it panics when no instance was added.
supports(task_name) ==
    /\ CanCall
    /\ providers_to_build # <<>>
    /\ providers_to_build' =
         [providers_to_build EXCEPT ![Len(providers_to_build)].supported_task_names =
             Append(@, task_name)]
    /\ builder_calls' = Append(builder_calls, [method |-> "supports", name |-> task_name])
    /\ UNCHANGED <<settings, registry, trackers, total_usage, now, req, api,
                   defined_tasks, config, built, adapters, studies>>

\* LlmManagerBuilder::enabled; it panics when no instance was added.
provider_enabled(flag) ==
    /\ CanCall
    /\ providers_to_build # <<>>
    /\ providers_to_build' =
         [providers_to_build EXCEPT ![Len(providers_to_build)].enabled = flag]
    /\ builder_calls' = Append(builder_calls, [method |-> "enabled", name |-> NoTask])
    /\ UNCHANGED <<settings, registry, trackers, total_usage, now, req, api,
                   defined_tasks, config, built, adapters, studies>>

\* LlmManagerBuilder::build, whole: every provider's task names are resolved
\* against defined_tasks, the first name not found ends the build with a
\* ConfigError and the manager under construction is dropped; otherwise each
\* provider is added and the manager is returned.
LlmManagerBuilder_build ==
    /\ built = NotBuilt
    /\ phase = "build"
    /\ LET undefined == first_undefined(defined_tasks, providers_to_build) IN
         IF undefined # NoTask
           THEN /\ built' = BuiltErr(ConfigError("Build failed: Task referenced by provider was not defined using define_task()", undefined, 0))
                /\ UNCHANGED <<phase, registry, trackers, total_usage, now>>
           ELSE /\ built' = BuiltOk
                /\ phase' = "run"
                /\ add_instances([p \in 1..Len(providers_to_build) |->
                       [enabled |-> providers_to_build[p].enabled,
                        tasks |-> NamesOf(providers_to_build[p].supported_task_names)
                                    \cap DOMAIN defined_tasks]])
    /\ builder_calls' = Append(builder_calls, [method |-> "build", name |-> NoTask])
    /\ UNCHANGED <<max_retries, strategy, overflow_checks, req, api,
                   defined_tasks, providers_to_build, config, adapters, studies>>

\* LlmManager::builder(): LlmManagerBuilder::new
InitBuilder ==
    /\ phase = "build"
    /\ max_retries = default_max_retries
    /\ strategy = "lru"
    /\ overflow_checks = FALSE
    /\ instances = <<>>
    /\ instance_counter = 0
    /\ tasks_to_instances = <<>>
    /\ trackers = <<>>
    /\ tracker_order = <<>>
    /\ total_usage = <<>>
    /\ now = 0
    /\ req = <<>>
    /\ op = "none"
    /\ requests = <<>>
    /\ outputs = <<>>
    /\ responses = <<>>
    /\ returned = FALSE
    /\ stream = IdleStream
    /\ IdleLibrary

NextBuilder ==
    \/ \E task_def \in TaskDefinitions : define_task(task_def)
    \/ add_instance
    \/ \E task_name \in Tasks : supports(task_name)
    \/ \E flag \in BOOLEAN : provider_enabled(flag)
    \/ LlmManagerBuilder_build

SpecBuilder == InitBuilder /\ [][NextBuilder]_vars

\* ------------------------------------------------------------ configuration
\* The strategy names a configuration is tried with.
lru == <<"l", "r", "u">>
least_recently_used ==
    <<"l", "e", "a", "s", "t", "_", "r", "e", "c", "e", "n", "t", "l", "y", "_", "u", "s", "e", "d">>
lowest_latency == <<"l", "o", "w", "e", "s", "t", "_", "l", "a", "t", "e", "n", "c", "y">>
latency == <<"l", "a", "t", "e", "n", "c", "y">>
random == <<"r", "a", "n", "d", "o", "m">>
StrategyNames ==
    { lru, least_recently_used, lowest_latency, latency, random,
      <<"L", "R", "U">>, <<"R", "a", "n", "d", "o", "m">>,
      <<"r", "o", "u", "n", "d", "_", "r", "o", "b", "i", "n">>, <<>> }

\* valid_strategies and valid_providers of validate_config
valid_strategies == <<lru, lowest_latency, random>>
valid_providers ==
    << <<"a", "n", "t", "h", "r", "o", "p", "i", "c">>, <<"o", "p", "e", "n", "a", "i">>,
       <<"m", "i", "s", "t", "r", "a", "l">>, <<"g", "o", "o", "g", "l", "e">>,
       <<"o", "l", "l", "a", "m", "a">>, <<"l", "m", "s", "t", "u", "d", "i", "o">>,
       <<"g", "r", "o", "q">>, <<"c", "o", "h", "e", "r", "e">>,
       <<"t", "o", "g", "e", "t", "h", "e", "r", "a", "i">>,
       <<"p", "e", "r", "p", "l", "e", "x", "i", "t", "y">> >>
\* <[&str]>::contains
contains(list, item) == \E k \in 1..Len(list) : list[k] = item

ProviderTypes ==
    { <<"g", "r", "o", "q">>, <<"O", "p", "e", "n", "A", "I">>, <<"a", "z", "u", "r", "e">> }

SeqsUpTo(S, n) == UNION { [1..k -> S] : k \in 0..n }
\* The configurations toml::from_str can produce, with api keys that name
\* no environment variable.
Configs ==
    [strategy : StrategyNames,
     max_retries : {default_max_retries},
     tasks : SeqsUpTo({ TaskDefinition(name, m) : name \in Tasks, m \in {0, 100} },
                      MaxConfigTasks),
     providers : SeqsUpTo([provider_type : ProviderTypes,
                           tasks : SeqsUpTo(Tasks, 1),
                           enabled : BOOLEAN], MaxConfigProviders)]

\* validate_config: the first error it returns, NoError for Ok(()).
validate_config(cfg) ==
    LET defined == { cfg.tasks[k].name : k \in 1..Len(cfg.tasks) }
        unknown(p) == ~contains(valid_providers, to_lowercase(cfg.providers[p].provider_type))
        missing(p) == { k \in 1..Len(cfg.providers[p].tasks) :
                          cfg.providers[p].tasks[k] \notin defined }
        failing == { p \in 1..Len(cfg.providers) : unknown(p) \/ missing(p) # {} }
    IN IF failing # {}
         THEN LET p == CHOOSE q \in failing : \A o \in failing : q <= o IN
              IF unknown(p)
                THEN ConfigError("Unknown provider type", NoTask, 0)
                ELSE ConfigError("Task referenced by provider is not defined",
                                 cfg.providers[p].tasks[CHOOSE j \in missing(p) :
                                                          \A o \in missing(p) : j <= o], 0)
       ELSE IF ~contains(valid_strategies, to_lowercase(cfg.strategy))
         THEN ConfigError("Unknown strategy", NoTask, 0)
       ELSE NoError

\* The match of from_config on the lower-cased strategy name.
strategy_from_config(name) ==
    LET lowered == to_lowercase(name) IN
    IF lowered \in {lru, least_recently_used} THEN "lru"
    ELSE IF lowered \in {lowest_latency, latency} THEN "lowest_latency"
    ELSE IF lowered = random THEN "random"
    ELSE "lru"

\* LlmManager::from_config_str, whole: parse_config (resolve_env_vars finds
\* nothing to resolve, validate_config) and from_config.
from_config_str ==
    /\ built = NotBuilt
    /\ phase = "build"
    /\ LET error == validate_config(config)
           task_defs == { config.tasks[k].name : k \in 1..Len(config.tasks) }
       IN IF error # NoError
            THEN /\ built' = BuiltErr(error)
                 /\ UNCHANGED <<settings, registry, trackers, total_usage, now>>
            ELSE /\ built' = BuiltOk
                 /\ strategy' = strategy_from_config(config.strategy)
                 /\ max_retries' = config.max_retries
                 /\ phase' = "run"
                 /\ add_instances([p \in 1..Len(config.providers) |->
                        [enabled |-> config.providers[p].enabled,
                         tasks |-> NamesOf(config.providers[p].tasks) \cap task_defs]])
                 /\ UNCHANGED overflow_checks
    /\ UNCHANGED <<req, api, defined_tasks, providers_to_build, builder_calls, config,
                   adapters, studies>>

InitConfig ==
    /\ phase = "build"
    /\ max_retries = default_max_retries
    /\ strategy = "lru"
    /\ overflow_checks = FALSE
    /\ instances = <<>>
    /\ instance_counter = 0
    /\ tasks_to_instances = <<>>
    /\ trackers = <<>>
    /\ tracker_order = <<>>
    /\ total_usage = <<>>
    /\ now = 0
    /\ req = <<>>
    /\ op = "none"
    /\ requests = <<>>
    /\ outputs = <<>>
    /\ responses = <<>>
    /\ returned = FALSE
    /\ stream = IdleStream
    /\ defined_tasks = <<>>
    /\ providers_to_build = <<>>
    /\ builder_calls = <<>>
    /\ config \in Configs
    /\ built = NotBuilt
    /\ IdleAdapters
    /\ IdleStudies

NextConfig == from_config_str

SpecConfig == InitConfig /\ [][NextConfig]_vars

\* The two ways a manager is constructed: by the builder, which starts from
\* no configuration, or from a configuration, with no builder call made.
NextConstruction ==
    \/ config = DefaultConfig /\ NextBuilder
    \/ builder_calls = <<>> /\ NextConfig

SpecConstruction == InitConfig /\ [][NextConstruction]_vars

\* ----------------------------------------------------- adapters and HTTP
\* StatusCode::is_success
is_success(status) == status >= 200 /\ status < 300
\* str::contains
str_contains(s, sub) ==
    \E k \in 1..(Len(s) - Len(sub) + 1) : SubSeq(s, k, k + Len(sub) - 1) = sub

\* The keywords from_api_response looks for in the lower-cased message.
RateLimitKeywords ==
    { <<"r", "a", "t", "e", " ", "l", "i", "m", "i", "t">>,
      <<"t", "o", "o", " ", "m", "a", "n", "y", " ", "r", "e", "q", "u", "e", "s", "t", "s">>,
      <<"q", "u", "o", "t", "a", " ", "e", "x", "c", "e", "e", "d", "e", "d">>,
      <<"o", "v", "e", "r", "l", "o", "a", "d", "e", "d">>,
      <<"t", "h", "r", "o", "t", "t", "l", "e">> }

\* LlmError::from_api_response
from_api_response(status, error_message) ==
    IF status = 429 THEN AdapterError("RateLimit", error_message)
    ELSE IF \E keyword \in RateLimitKeywords :
               str_contains(to_lowercase(error_message), keyword)
      THEN AdapterError("RateLimit", error_message)
    ELSE AdapterError("ApiError", error_message)

\* What each adapter's generate makes of the status and body of the
\* response it received: the error it returns, NoError when it goes on to
\* read the completion.
OpenAIInstance_generate(status, body) ==
    IF ~is_success(status) THEN AdapterError("ApiError", <<"OpenAI API error: ">> \o body)
    ELSE NoError
AnthropicInstance_generate(status, body) ==
    IF ~is_success(status) THEN AdapterError("ApiError", <<"Anthropic API error: ">> \o body)
    ELSE NoError
MistralInstance_generate(status, body) ==
    IF ~is_success(status) THEN AdapterError("ApiError", <<"Mistral API error: ">> \o body)
    ELSE NoError
GoogleInstance_generate(status, body) ==
    IF ~is_success(status) THEN AdapterError("ApiError", <<"Google API error: ">> \o body)
    ELSE NoError
OllamaInstance_generate(status, body) ==
    IF ~is_success(status) THEN AdapterError("ApiError", <<"Ollama API error: ">> \o body)
    ELSE NoError
LMStudioInstance_generate(status, body) ==
    IF ~is_success(status) THEN AdapterError("ApiError", <<"LM Studio API error: ">> \o body)
    ELSE NoError
GroqInstance_generate(status, body) ==
    IF status = 429 THEN AdapterError("RateLimit", <<"Groq rate limit: ">> \o body)
    ELSE IF ~is_success(status) THEN AdapterError("ApiError", <<"Groq API error: ">> \o body)
    ELSE NoError
CohereInstance_generate(status, body) ==
    IF status = 429 THEN AdapterError("RateLimit", <<"Cohere rate limit: ">> \o body)
    ELSE IF ~is_success(status) THEN AdapterError("ApiError", <<"Cohere API error: ">> \o body)
    ELSE NoError
PerplexityInstance_generate(status, body) ==
    IF status = 429 THEN AdapterError("RateLimit", <<"Perplexity rate limit: ">> \o body)
    ELSE IF ~is_success(status) THEN AdapterError("ApiError", <<"Perplexity API error: ">> \o body)
    ELSE NoError
TogetherAIInstance_generate(status, body) ==
    IF status = 429 THEN AdapterError("RateLimit", <<"Together AI rate limit: ">> \o body)
    ELSE IF ~is_success(status) THEN AdapterError("ApiError", <<"Together AI API error: ">> \o body)
    ELSE NoError

Providers ==
    {"openai", "anthropic", "mistral", "google", "ollama", "lmstudio", "groq", "cohere", "perplexity", "togetherai"}
generate_status(provider, status, body) ==
    CASE provider = "openai" -> OpenAIInstance_generate(status, body)
      [] provider = "anthropic" -> AnthropicInstance_generate(status, body)
      [] provider = "mistral" -> MistralInstance_generate(status, body)
      [] provider = "google" -> GoogleInstance_generate(status, body)
      [] provider = "ollama" -> OllamaInstance_generate(status, body)
      [] provider = "lmstudio" -> LMStudioInstance_generate(status, body)
      [] provider = "groq" -> GroqInstance_generate(status, body)
      [] provider = "cohere" -> CohereInstance_generate(status, body)
      [] provider = "perplexity" -> PerplexityInstance_generate(status, body)
      [] provider = "togetherai" -> TogetherAIInstance_generate(status, body)

\* The responses an upstream API is taken to send.
Statuses == {200, 400, 429, 500, 529}
Bodies ==
    { <<"R", "a", "t", "e", " ", "l", "i", "m", "i", "t", " ", "r", "e", "a", "c", "h", "e", "d">>,
      <<"s", "e", "r", "v", "e", "r", " ", "o", "v", "e", "r", "l", "o", "a", "d", "e", "d">>,
      <<"b", "a", "d", " ", "r", "e", "q", "u", "e", "s", "t">>,
      <<"T", "o", "o", " ", "M", "a", "n", "y", " ", "R", "e", "q", "u", "e", "s", "t", "s">>,
      <<>> }

\* The adapter has the response and returns.
generate_http ==
    /\ http.provider \in Providers
    /\ http.result = NoError
    /\ generate_status(http.provider, http.status, http.body) # NoError
    /\ http' = [http EXCEPT !.result = generate_status(http.provider, http.status, http.body)]
    /\ UNCHANGED <<settings, registry, trackers, total_usage, now, req, api,
                   construction, merge, sse, studies>>

\* LlmError::from_api_response applied to the same status and body.
api_response_classified ==
    /\ http.provider \in Providers
    /\ http.classified = NoError
    /\ ~is_success(http.status)
    /\ http' = [http EXCEPT !.classified = from_api_response(http.status, http.body)]
    /\ UNCHANGED <<settings, registry, trackers, total_usage, now, req, api,
                   construction, merge, sse, studies>>

InitHttp ==
    /\ phase = "run"
    /\ max_retries = default_max_retries
    /\ strategy = "lru"
    /\ overflow_checks = FALSE
    /\ instances = <<>>
    /\ instance_counter = 0
    /\ tasks_to_instances = <<>>
    /\ trackers = <<>>
    /\ tracker_order = <<>>
    /\ total_usage = <<>>
    /\ now = 0
    /\ req = <<>>
    /\ op = "none"
    /\ requests = <<>>
    /\ outputs = <<>>
    /\ responses = <<>>
    /\ returned = FALSE
    /\ stream = IdleStream
    /\ defined_tasks = <<>>
    /\ providers_to_build = <<>>
    /\ builder_calls = <<>>
    /\ config = DefaultConfig
    /\ built = NotBuilt
    /\ \E provider \in Providers, status \in Statuses, body \in Bodies :
         http = [NoHttp EXCEPT !.provider = provider, !.status = status, !.body = body]
    /\ merge = NoMerge
    /\ sse = NoSse
    /\ IdleStudies

NextHttp ==
    \/ generate_http
    \/ api_response_classified

SpecHttp == InitHttp /\ [][NextHttp]_vars

\* ------------------------------------------------------ streaming decoders
\* A line of a response body, as the decoders take it apart: what it starts
\* with and the rest of it after trimming.
Line(field, data) == [field |-> field, data |-> data]
ChunkA == "{\"choices\":[{\"delta\":{\"content\":\"a\"}}]}"
ChunkB == "{\"choices\":[{\"delta\":{\"content\":\"b\"}}]}"
Payloads == {"[DONE]", ChunkA, ChunkB, "{"}
Lines == { Line("data: ", data) : data \in Payloads } \cup { Line("event: ", "message") }

\* serde_json::from_str::<OpenAIStreamChunk> followed by to_stream_chunk:
\* the StreamChunk of a well-formed payload, a ParseError for any other.
StreamChunk(content) == [ok |-> TRUE, content |-> content, error |-> NoError]
StreamError(e) == [ok |-> FALSE, content |-> "", error |-> e]
parse_chunk(data) ==
    CASE data = ChunkA -> StreamChunk("a")
      [] data = ChunkB -> StreamChunk("b")
      [] OTHER -> StreamError(AdapterError("ParseError", "Failed to parse streaming chunk"))

\* The filter_map of the decoders over the lines of one byte block: a line
\* that is not a data line and a [DONE] payload give nothing, any other
\* payload gives its chunk or a ParseError.  Each item carries the position
\* in the body of the line it was made from; first is the position of the
\* block's first line.
RECURSIVE decode_lines(_, _, _)
decode_lines(lines, k, first) ==
    IF k > Len(lines) THEN <<>>
    ELSE LET rest == decode_lines(lines, k + 1, first) IN
         IF lines[k].field = "data: " /\ lines[k].data # "[DONE]"
           THEN <<[item |-> parse_chunk(lines[k].data), line |-> first + k - 1]>> \o rest
           ELSE rest

\* parse_sse_buffer over a buffer that ends with a newline: the data of
\* every data line that is neither empty nor [DONE].
RECURSIVE parse_sse_buffer(_, _)
parse_sse_buffer(lines, k) ==
    IF k > Len(lines) THEN <<>>
    ELSE IF lines[k].field = "data: " /\ lines[k].data # "" /\ lines[k].data # "[DONE]"
      THEN <<lines[k].data>> \o parse_sse_buffer(lines, k + 1)
    ELSE parse_sse_buffer(lines, k + 1)

\* The lines of the blocks before block b.
RECURSIVE LinesBefore(_, _)
LinesBefore(body, b) ==
    IF b <= 1 THEN 0 ELSE LinesBefore(body, b - 1) + Len(body[b - 1])

\* The caller polls the stream: the next byte block arrives and its items
\* are delivered in order.
poll_next ==
    /\ sse # NoSse
    /\ sse.read < Len(sse.body)
    /\ LET b == sse.read + 1 IN
         sse' = [sse EXCEPT
                   !.read = b,
                   !.delivered = @ \o decode_lines(sse.body[b], 1, LinesBefore(sse.body, b) + 1)]
    /\ UNCHANGED <<settings, registry, trackers, total_usage, now, req, api,
                   construction, http, merge, studies>>

\* parse_sse_buffer applied to the whole body in one buffer.
sse_buffer_parsed ==
    /\ sse # NoSse
    /\ ~sse.parsed
    /\ LET all == [k \in 1..LinesBefore(sse.body, Len(sse.body) + 1) |->
                     LET b == CHOOSE c \in 1..Len(sse.body) :
                                  /\ LinesBefore(sse.body, c) < k
                                  /\ k <= LinesBefore(sse.body, c + 1)
                     IN sse.body[b][k - LinesBefore(sse.body, b)]]
       IN sse' = [sse EXCEPT !.parsed = TRUE, !.events = parse_sse_buffer(all, 1)]
    /\ UNCHANGED <<settings, registry, trackers, total_usage, now, req, api,
                   construction, http, merge, studies>>

InitSse ==
    /\ phase = "run"
    /\ max_retries = default_max_retries
    /\ strategy = "lru"
    /\ overflow_checks = FALSE
    /\ instances = <<>>
    /\ instance_counter = 0
    /\ tasks_to_instances = <<>>
    /\ trackers = <<>>
    /\ tracker_order = <<>>
    /\ total_usage = <<>>
    /\ now = 0
    /\ req = <<>>
    /\ op = "none"
    /\ requests = <<>>
    /\ outputs = <<>>
    /\ responses = <<>>
    /\ returned = FALSE
    /\ stream = IdleStream
    /\ defined_tasks = <<>>
    /\ providers_to_build = <<>>
    /\ builder_calls = <<>>
    /\ config = DefaultConfig
    /\ built = NotBuilt
    /\ http = NoHttp
    /\ merge = NoMerge
    /\ IdleStudies
    /\ \E body \in SeqsUpTo(SeqsUpTo(Lines, MaxLines) \ {<<>>}, MaxBlocks) :
         sse = [state |-> "open", body |-> body, read |-> 0, delivered |-> <<>>,
                parsed |-> FALSE, events |-> <<>>]

NextSse ==
    \/ poll_next
    \/ sse_buffer_parsed

SpecSse == InitSse /\ [][NextSse]_vars

\* The decoders character by character.  A text is a sequence of
\* one-character strings.
DataPrefix == <<"d", "a", "t", "a", ":", " ">>
ChunkAText == <<"{", "a", "}">>
ChunkBText == <<"{", "b", "}">>
DoneText == <<"[", "D", "O", "N", "E", "]">>
\* The lines a body is made of: data lines and the blank line between events.
BodyLineTexts == {DataPrefix \o ChunkAText, DataPrefix \o ChunkBText, DataPrefix \o DoneText, <<>>}

\* str::lines: the pieces between line feeds; a last piece without a line
\* feed is a line too, an empty one is not.
RECURSIVE str_lines(_)
str_lines(text) ==
    IF text = <<>> THEN <<>>
    ELSE LET feeds == { k \in 1..Len(text) : text[k] = "\n" } IN
         IF feeds = {} THEN <<text>>
         ELSE LET k == CHOOSE f \in feeds : \A g \in feeds : f <= g
              IN <<SubSeq(text, 1, k - 1)>> \o str_lines(SubSeq(text, k + 1, Len(text)))

\* str::trim
Whitespace == {" ", "\r", "\t"}
RECURSIVE trim(_)
trim(text) ==
    IF text = <<>> THEN <<>>
    ELSE IF text[1] \in Whitespace THEN trim(Tail(text))
    ELSE IF text[Len(text)] \in Whitespace THEN trim(SubSeq(text, 1, Len(text) - 1))
    ELSE text

\* str::starts_with
starts_with(text, prefix) ==
    Len(text) >= Len(prefix) /\ SubSeq(text, 1, Len(prefix)) = prefix

\* serde_json::from_str::<OpenAIStreamChunk> followed by to_stream_chunk on
\* the characters of a payload: a part of a JSON object is not JSON.
parse_chunk_text(data) ==
    IF data = ChunkAText THEN StreamChunk("a")
    ELSE IF data = ChunkBText THEN StreamChunk("b")
    ELSE StreamError(AdapterError("ParseError", "Failed to parse streaming chunk"))

\* The closure of flat_map over one network chunk: its lines, each trimmed;
\* a line that starts with "data: " gives the chunk or the ParseError of
\* what follows the prefix unless that is [DONE]; any other line nothing.
RECURSIVE decode_text_lines(_)
decode_text_lines(lines) ==
    IF lines = <<>> THEN <<>>
    ELSE LET line == trim(Head(lines))
             rest == decode_text_lines(Tail(lines))
         IN IF starts_with(line, DataPrefix)
              THEN LET data == SubSeq(line, Len(DataPrefix) + 1, Len(line)) IN
                   IF data = DoneText THEN rest ELSE <<parse_chunk_text(data)>> \o rest
              ELSE rest
decode_bytes(bytes) == decode_text_lines(str_lines(bytes))

\* The bytes of a body whose lines are given: each line and its line feed.
RECURSIVE BodyOf(_)
BodyOf(lines) ==
    IF lines = <<>> THEN <<>> ELSE Head(lines) \o <<"\n">> \o BodyOf(Tail(lines))
\* Where the network chunk that begins after position read ends.
ChunkEnd(body, cuts, read) ==
    LET ends == { c \in cuts : c > read } \cup {Len(body)}
    IN CHOOSE e \in ends : \A f \in ends : e <= f

\* The caller polls the stream: the next network chunk arrives, whatever
\* part of the body it holds, and its items are delivered in order.
bytes_polled ==
    /\ sse # NoSse
    /\ sse.state = "bytes"
    /\ sse.read < Len(sse.body)
    /\ LET end == ChunkEnd(sse.body, sse.cuts, sse.read) IN
         sse' = [sse EXCEPT
                   !.read = end,
                   !.delivered = @ \o decode_bytes(SubSeq(sse.body, sse.read + 1, end))]
    /\ UNCHANGED <<settings, registry, trackers, total_usage, now, req, api,
                   construction, http, merge, studies>>

\* A body of whole lines, cut by the transport at up to MaxCuts places.
InitSseBytes ==
    /\ phase = "run"
    /\ max_retries = default_max_retries
    /\ strategy = "lru"
    /\ overflow_checks = FALSE
    /\ instances = <<>>
    /\ instance_counter = 0
    /\ tasks_to_instances = <<>>
    /\ trackers = <<>>
    /\ tracker_order = <<>>
    /\ total_usage = <<>>
    /\ now = 0
    /\ req = <<>>
    /\ op = "none"
    /\ requests = <<>>
    /\ outputs = <<>>
    /\ responses = <<>>
    /\ returned = FALSE
    /\ stream = IdleStream
    /\ defined_tasks = <<>>
    /\ providers_to_build = <<>>
    /\ builder_calls = <<>>
    /\ config = DefaultConfig
    /\ built = NotBuilt
    /\ http = NoHttp
    /\ merge = NoMerge
    /\ IdleStudies
    /\ \E lines \in SeqsUpTo(BodyLineTexts, MaxBodyLines) \ {<<>>} :
         \E cuts \in SUBSET (1..(Len(BodyOf(lines)) - 1)) :
           /\ Cardinality(cuts) <= MaxCuts
           /\ sse = [state |-> "bytes", body |-> BodyOf(lines), cuts |-> cuts,
                     read |-> 0, delivered |-> <<>>]

NextSseBytes == bytes_polled

SpecSseBytes == InitSseBytes /\ [][NextSseBytes]_vars

\* ---------------------------------------------------------- parameter merge
\* serde_json::Value as far as the merge looks at it: an unsigned integer
\* (a u64 kept as its upper and lower 32 bits), a float (in tenths), a
\* string; Absent is the None of an Option.
UInt(high, low) == [kind |-> "u64", high |-> high, low |-> low, tenths |-> 0]
Float(tenths) == [kind |-> "f64", high |-> 0, low |-> 0, tenths |-> tenths]
Str(text) == [kind |-> "string", high |-> 0, low |-> 0, tenths |-> 0, text |-> text]
Values == {UInt(0, 100), UInt(0, 200), UInt(1, 100), Float(7), Str("x")}
Keys == {"max_tokens", "temperature", "top_p"}
ParamMaps == UNION { [D -> Values] : D \in SUBSET Keys }

\* HashMap::extend keeping the value already present.
extend_keep(map, other) ==
    [k \in (DOMAIN map) \cup (DOMAIN other) |-> IF k \in DOMAIN map THEN map[k] ELSE other[k]]

\* HashMap::extend: every pair of other is inserted, replacing the value
\* of a key already present.
extend(map, other) ==
    [k \in (DOMAIN map) \cup (DOMAIN other) |-> IF k \in DOMAIN other THEN other[k] ELSE map[k]]

\* final_params.get(key)
get(map, key) == IF key \in DOMAIN map THEN Some(map[key]) ELSE Absent
\* Value::as_u64 followed by `as u32`: the lower 32 bits of an unsigned
\* integer, nothing for any other value.
as_u32(found) ==
    IF found # Absent /\ found.value.kind = "u64" THEN Some(UInt(0, found.value.low)) ELSE Absent
\* Value::as_f64 followed by `as f32`: any number, rounded to 24 significant
\* bits; nothing for a string.
as_f32(found) ==
    IF found = Absent \/ found.value.kind = "string" THEN Absent
    ELSE IF found.value.high = 0 THEN Some([found.value EXCEPT !.kind = "f32"])
    ELSE Some([found.value EXCEPT !.kind = "f32", !.low = ((@ + 256) \div 512) * 512])

\* Step 6 of instance_selection and the construction of the LlmRequest.
merged_request(task_def, request_params) ==
    LET defaults == IF task_def # Absent THEN extend(<<>>, task_def.value) ELSE <<>>
        final_params == IF request_params # Absent THEN extend(defaults, request_params.value)
                        ELSE defaults
    IN [final_params |-> final_params,
        max_tokens |-> as_u32(get(final_params, "max_tokens")),
        temperature |-> as_f32(get(final_params, "temperature"))]

\* LlmManager::instance_selection, from the selection to the LlmRequest.
merge_params ==
    /\ merge.state = "selected"
    /\ merge.path = "instance_selection"
    /\ merge' = [merge EXCEPT !.state = "built",
                              !.request = merged_request(merge.task_def, merge.request_params)]
    /\ UNCHANGED <<settings, registry, trackers, total_usage, now, req, api,
                   construction, http, sse, studies>>

\* LlmManager::generate_stream, from the selection to the LlmRequest.
merge_params_stream ==
    /\ merge.state = "selected"
    /\ merge.path = "generate_stream"
    /\ merge' = [merge EXCEPT !.state = "built",
                              !.request = merged_request(merge.task_def, merge.request_params)]
    /\ UNCHANGED <<settings, registry, trackers, total_usage, now, req, api,
                   construction, http, sse, studies>>

\* A request whose instance has been selected: with a task, the parameters
\* of the instance's TaskDefinition for it; with none, no TaskDefinition.
InitMerge ==
    /\ phase = "run"
    /\ max_retries = default_max_retries
    /\ strategy = "lru"
    /\ overflow_checks = FALSE
    /\ instances = <<>>
    /\ instance_counter = 0
    /\ tasks_to_instances = <<>>
    /\ trackers = <<>>
    /\ tracker_order = <<>>
    /\ total_usage = <<>>
    /\ now = 0
    /\ req = <<>>
    /\ op = "none"
    /\ requests = <<>>
    /\ outputs = <<>>
    /\ responses = <<>>
    /\ returned = FALSE
    /\ stream = IdleStream
    /\ defined_tasks = <<>>
    /\ providers_to_build = <<>>
    /\ builder_calls = <<>>
    /\ config = DefaultConfig
    /\ built = NotBuilt
    /\ http = NoHttp
    /\ sse = NoSse
    /\ IdleStudies
    /\ \E path \in {"instance_selection", "generate_stream"},
          task_def \in {Absent} \cup { Some(m) : m \in ParamMaps },
          request_params \in {Absent} \cup { Some(m) : m \in ParamMaps } :
         merge = [state |-> "selected", path |-> path,
                  task |-> IF task_def = Absent THEN NoTask ELSE "chat",
                  task_def |-> task_def, request_params |-> request_params,
                  request |-> Absent]

NextMerge ==
    \/ merge_params
    \/ merge_params_stream

SpecMerge == InitMerge /\ [][NextMerge]_vars

\* ------------------------------------------------------------ lock traffic
\* What an operation does with the manager's Mutexes, in program order: a
\* lock().await, the drop of a guard at the end of its scope (guards of one
\* scope are dropped in the reverse of their declaration), and an await on
\* something other than a lock with no guard held.
LockStep(m) == [do |-> "lock", mutex |-> m]
DropStep(m) == [do |-> "drop", mutex |-> m]
AwaitStep == [do |-> "await", mutex |-> "none"]

\* instance_selection taking the strategy lock before the trackers lock in
\* its strategy block.
instance_selection_locks_strategy_first ==
    << LockStep("tasks_to_instances"), DropStep("tasks_to_instances"),
       LockStep("trackers"), DropStep("trackers"),
       LockStep("strategy"), LockStep("trackers"),
       DropStep("trackers"), DropStep("strategy"),
       AwaitStep,
       LockStep("trackers"), DropStep("trackers") >>

\* instance_selection: the routing index, the first trackers block, the
\* strategy block (trackers, then strategy), the adapter call, the metrics
\* update.
instance_selection_locks ==
    << LockStep("tasks_to_instances"), DropStep("tasks_to_instances"),
       LockStep("trackers"), DropStep("trackers"),
       LockStep("trackers"), LockStep("strategy"),
       DropStep("strategy"), DropStep("trackers"),
       AwaitStep,
       LockStep("trackers"), DropStep("trackers") >>
\* select_streaming_instance and the adapter's generate_stream after it
select_streaming_instance_locks ==
    << LockStep("tasks_to_instances"), DropStep("tasks_to_instances"),
       LockStep("trackers"), DropStep("trackers"),
       LockStep("trackers"), LockStep("strategy"),
       DropStep("strategy"), DropStep("trackers"),
       AwaitStep >>
update_instance_usage_locks == << LockStep("total_usage"), DropStep("total_usage") >>
get_instance_usage_locks == << LockStep("total_usage"), DropStep("total_usage") >>
get_total_usage_locks == << LockStep("total_usage"), DropStep("total_usage") >>
get_provider_count_locks == << LockStep("trackers"), DropStep("trackers") >>
print_token_usage_locks ==
    << LockStep("trackers"), LockStep("total_usage"),
       DropStep("total_usage"), DropStep("trackers") >>

\* The operations callers invoke on one manager.  generate_sequentially and
\* batch_generate take locks only through generate_response: a selection
\* with its adapter call and metrics update, the usage update, and, before
\* the next iteration of a build with the metrics feature, the trackers lock
\* of the retry metric.
LockingOperations ==
    {"generate_sequentially", "batch_generate", "generate_stream", "get_instance_usage",
     "get_total_usage", "get_provider_count", "print_token_usage"}
lock_program(operation) ==
    CASE operation \in {"generate_sequentially", "batch_generate"} ->
           instance_selection_locks \o update_instance_usage_locks
             \o << LockStep("trackers"), DropStep("trackers") >>
      [] operation = "generate_stream" -> select_streaming_instance_locks
      [] operation = "get_instance_usage" -> get_instance_usage_locks
      [] operation = "get_total_usage" -> get_total_usage_locks
      [] operation = "get_provider_count" -> get_provider_count_locks
      [] operation = "print_token_usage" -> print_token_usage_locks

Callers == 1..MaxCallers
IdleCaller == [op |-> "none", pc |-> 0]
next_step(c) == lock_program(locking.at[c].op)[locking.at[c].pc]
guards_of(c) == { m \in Mutexes : locking.owner[m] = c }
\* A caller after its step: at the next one, or back from the operation.
stepped(c) ==
    IF locking.at[c].pc = Len(lock_program(locking.at[c].op)) THEN IdleCaller
    ELSE [locking.at[c] EXCEPT !.pc = @ + 1]

\* A caller invokes an operation; a request without a task does not take
\* the lock of the routing index.
first_lock(operation) ==
    IF lock_program(operation)[1].mutex = "tasks_to_instances" THEN {1, 3} ELSE {1}
caller_begins(c, operation, at) ==
    /\ locking.state = "run"
    /\ locking.at[c] = IdleCaller
    /\ at \in first_lock(operation)
    /\ locking' = [locking EXCEPT !.at[c] = [op |-> operation, pc |-> at]]
    /\ UNCHANGED <<settings, registry, trackers, total_usage, now, req, api,
                   construction, adapters, history>>

\* mutex.lock().await is granted: no caller holds the guard.
lock_granted(c) ==
    /\ locking.state = "run"
    /\ locking.at[c] # IdleCaller
    /\ next_step(c).do = "lock"
    /\ locking.owner[next_step(c).mutex] = 0
    /\ locking' = [locking EXCEPT !.owner[next_step(c).mutex] = c, !.at[c] = stepped(c)]
    /\ UNCHANGED <<settings, registry, trackers, total_usage, now, req, api,
                   construction, adapters, history>>

\* A guard goes out of scope.  Once the caller holds no guard it may leave
\* the operation there: an early return, or a path that skips the rest (a
\* response without usage, the last iteration).
guard_dropped(c, leaves) ==
    /\ locking.state = "run"
    /\ locking.at[c] # IdleCaller
    /\ next_step(c).do = "drop"
    /\ leaves => guards_of(c) = {next_step(c).mutex}
    /\ locking' = [locking EXCEPT !.owner[next_step(c).mutex] = 0,
                                  !.at[c] = IF leaves THEN IdleCaller ELSE stepped(c)]
    /\ UNCHANGED <<settings, registry, trackers, total_usage, now, req, api,
                   construction, adapters, history>>

\* The adapter call the caller awaits returns.
await_returns(c) ==
    /\ locking.state = "run"
    /\ locking.at[c] # IdleCaller
    /\ next_step(c).do = "await"
    /\ locking' = [locking EXCEPT !.at[c] = stepped(c)]
    /\ UNCHANGED <<settings, registry, trackers, total_usage, now, req, api,
                   construction, adapters, history>>

InitLocks ==
    /\ phase = "run"
    /\ max_retries = default_max_retries
    /\ strategy = "lru"
    /\ overflow_checks = FALSE
    /\ instances = <<>>
    /\ instance_counter = 0
    /\ tasks_to_instances = <<>>
    /\ trackers = <<>>
    /\ tracker_order = <<>>
    /\ total_usage = <<>>
    /\ now = 0
    /\ req = <<>>
    /\ op = "none"
    /\ requests = <<>>
    /\ outputs = <<>>
    /\ responses = <<>>
    /\ returned = FALSE
    /\ stream = IdleStream
    /\ defined_tasks = <<>>
    /\ providers_to_build = <<>>
    /\ builder_calls = <<>>
    /\ config = DefaultConfig
    /\ built = NotBuilt
    /\ IdleAdapters
    /\ history = <<>>
    /\ locking = [state |-> "run", owner |-> [m \in Mutexes |-> 0],
                  at |-> [c \in Callers |-> IdleCaller]]

\* The steps of a caller inside an operation.
caller_step(c) ==
    \/ lock_granted(c)
    \/ \E leaves \in BOOLEAN : guard_dropped(c, leaves)
    \/ await_returns(c)

NextLocks ==
    \/ \E c \in Callers, operation \in LockingOperations, at \in {1, 3} :
         caller_begins(c, operation, at)
    \/ \E c \in Callers : lock_granted(c)
    \/ \E c \in Callers, leaves \in BOOLEAN : guard_dropped(c, leaves)
    \/ \E c \in Callers : await_returns(c)

\* tokio's Mutex grants the lock in the order in which it was asked for,
\* so a caller whose lock becomes free again and again gets it; a guard
\* that goes out of scope is dropped and an awaited adapter call returns.
SpecLocks ==
    InitLocks /\ [][NextLocks]_vars /\ \A c \in Callers : SF_vars(caller_step(c))

TypeOK ==
    /\ phase \in {"build", "run"}
    /\ instance_counter \in 0..MaxInstances
    /\ DOMAIN trackers = 0..(instance_counter - 1)

\* =================================================================== claims
\* What a request has done, read off its trail.
InvokedAt(rq) == { k \in 1..Len(rq.trail) : rq.trail[k].invoked }
Invocations(rq) == Cardinality(InvokedAt(rq))
IsRateLimit(response) == ~response.ok /\ response.error.kind = "RateLimit"
IsOtherError(response) == ~response.ok /\ response.error.kind # "RateLimit"
FailedIds(rq) ==
    { rq.trail[k].instance_id : k \in { j \in InvokedAt(rq) : IsOtherError(rq.trail[j].response) } }
ApiErrorX == ErrResponse(AdapterError("ApiError", "x"))
Counts(id, calls, errors) ==
    trackers[id].request_count = calls /\ trackers[id].error_count = errors

\* C1: a request never makes more than max_retries + 1 adapter invocations,
\* whatever the adapters return.
C1_InvocationsWithinBudget ==
    \A r \in Requests : Invocations(req[r]) <= max_retries + 1

\* A request that used its whole budget: max_retries + 1 invocations.
C1_Witness ==
    \E r \in Requests :
        /\ req[r].pc = "done"
        /\ max_retries >= 2
        /\ Invocations(req[r]) = max_retries + 1

\* C2: for a request naming task T every invoked instance supports T, and
\* when no instance supports T the request ends in an error with no adapter
\* invoked.
C2_OnlySupportingInstancesInvoked ==
    \A r \in Requests :
        LET rq == req[r] IN
        rq.task # NoTask =>
          /\ \A k \in InvokedAt(rq) :
                 rq.task \in instances[rq.trail[k].instance_id].tasks
          /\ ( /\ \A i \in DOMAIN instances : rq.task \notin instances[i].tasks
               /\ rq.pc = "done" )
               => ~rq.result.ok /\ Invocations(rq) = 0

\* The task-routing scenario: A supports only "chat", B supports "code", the
\* request for "code" failed on B and ended without A having been called.
C2_Witness ==
    \E r \in Requests :
        /\ instance_counter = 2
        /\ instances[0].enabled /\ instances[0].tasks = {"chat"}
        /\ instances[1].enabled /\ instances[1].tasks = {"code"}
        /\ req[r].task = "code"
        /\ req[r].pc = "done"
        /\ ~req[r].result.ok
        /\ Invocations(req[r]) >= 1
        /\ trackers[0].request_count = 0

\* C3: after a non-rate-limit error from instance i, i is in the failed set
\* of every later iteration, is not among the candidates and is not invoked
\* again; after a RateLimit error from i the failed set is unchanged and i is
\* among the candidates of the next iteration.
C3_FailedSetFollowsErrorKind ==
    \A r \in Requests :
        LET rq == req[r]
            n == Len(rq.trail)
        IN \A k \in InvokedAt(rq) :
             LET e == rq.trail[k] IN
             /\ IsOtherError(e.response) =>
                  /\ k < n => Contains(rq.trail[k + 1].failed, e.instance_id)
                  /\ rq.pc \in {"select", "pick", "calling", "done"}
                       => Contains(rq.failed_instances, e.instance_id)
                  /\ rq.pc = "pick" => ~Contains(rq.eligible, e.instance_id)
                  /\ \A j \in InvokedAt(rq) :
                       j > k => rq.trail[j].instance_id # e.instance_id
             /\ IsRateLimit(e.response) =>
                  /\ k < n => rq.trail[k + 1].failed = e.failed
                  /\ (k = n /\ rq.pc \in {"sleeping", "select", "pick", "calling", "done"})
                       => rq.failed_instances = e.failed
                  /\ (k = n /\ rq.pc = "pick") => Contains(rq.eligible, e.instance_id)

\* A request whose first call was rate limited, whose second call failed
\* otherwise, and which then went on to a third call.
C3_Witness ==
    \E r \in Requests :
        /\ Len(req[r].trail) >= 3
        /\ req[r].trail[1].invoked /\ IsRateLimit(req[r].trail[1].response)
        /\ req[r].trail[2].invoked /\ IsOtherError(req[r].trail[2].response)
        /\ req[r].trail[3].invoked

\* The retry-exhaustion scenario: one enabled instance that serves the
\* request's task, max_retries = 2, every call answered ApiError("x"), and
\* the request has ended.
RetryExhaustionScenario(rq) ==
    /\ phase = "run"
    /\ instance_counter = 1
    /\ instances[0].enabled
    /\ rq.task = NoTask \/ rq.task \in instances[0].tasks
    /\ max_retries = 2
    /\ rq.pc = "done"
    /\ \A k \in InvokedAt(rq) : rq.trail[k].response = ApiErrorX

\* C4 as stated: in the scenario the request fails with ApiError("x") after
\* exactly 3 invocations and A ends with request_count = error_count = 3; and
\* the error returned to the caller of a request that invoked some adapter is
\* the most recent adapter error.
C4_AsStated ==
    \A r \in Requests :
        LET rq == req[r] IN
        /\ RetryExhaustionScenario(rq) =>
             /\ rq.result = ApiErrorX
             /\ Invocations(rq) = 3
             /\ Counts(0, 3, 3)
        /\ (rq.pc = "done" /\ ~rq.result.ok /\ InvokedAt(rq) # {}) =>
             \E k \in InvokedAt(rq) :
                 /\ \A j \in InvokedAt(rq) : j <= k
                 /\ rq.result = rq.trail[k].response

\* C4 (amended): in the scenario the request fails with the ConfigError "No
\* enabled providers available" after exactly 1 invocation and A ends with
\* request_count = error_count = 1; and an error returned to the caller is
\* the error of the most recent loop iteration, unchanged.
C4_SingleInstanceFailsOnce ==
    \A r \in Requests :
        LET rq == req[r] IN
        /\ RetryExhaustionScenario(rq) =>
             /\ ~rq.result.ok
             /\ rq.result.error.kind = "ConfigError"
             /\ rq.result.error.msg = "No enabled providers available"
             /\ Invocations(rq) = 1
             /\ Counts(0, 1, 1)
        /\ (rq.pc = "done" /\ ~rq.result.ok) =>
             /\ rq.trail # <<>>
             /\ rq.result = rq.trail[Len(rq.trail)].response
             /\ rq.attempts > max_retries

\* The scenario has been run to its end.
C4_Witness ==
    \E r \in Requests :
        /\ RetryExhaustionScenario(req[r])
        /\ Invocations(req[r]) >= 1

\* C5 as stated: an iteration in which selection returned a ConfigError is
\* the request's last, leaves attempts and the failed set as they were, and
\* its error is what the caller receives.
C5_AsStated ==
    \A r \in Requests :
        LET rq == req[r] IN
        \A k \in 1..Len(rq.trail) :
            ~rq.trail[k].invoked =>
              /\ k = Len(rq.trail)
              /\ rq.pc \in {"classify", "done"}
              /\ rq.attempts = rq.trail[k].attempts
              /\ rq.failed_instances = rq.trail[k].failed
              /\ rq.pc = "done" => rq.result = rq.trail[k].response

\* C6 as stated: a request that ends with the ConfigError of an empty
\* eligible list after some instance failed reports as excluded the number
\* of distinct instances that failed during the request.
C6_AsStated ==
    \A r \in Requests :
        LET rq == req[r] IN
        ( /\ rq.pc = "done"
          /\ ~rq.result.ok
          /\ rq.result.error.kind = "ConfigError"
          /\ FailedIds(rq) # {} )
          => rq.result.error.excluded = Cardinality(FailedIds(rq))

\* C7 as stated: LRU, A (id 0) and B (id 1) enabled and supporting "chat",
\* max_retries = 3, A answering ApiError and B answering "ok": the request for
\* "chat" returns "ok", A ends with 1 request and 1 error, B with 1 request
\* and no error.
C7_AsStated ==
    \A r \in Requests :
        LET rq == req[r] IN
        ( /\ phase = "run"
          /\ strategy = "lru"
          /\ max_retries = 3
          /\ instance_counter = 2
          /\ \A i \in {0, 1} : instances[i].enabled /\ "chat" \in instances[i].tasks
          /\ rq.task = "chat"
          /\ rq.pc = "done"
          /\ \A k \in InvokedAt(rq) :
               IF rq.trail[k].instance_id = 0
                 THEN rq.trail[k].response = ApiErrorX
                 ELSE rq.trail[k].response.ok /\ rq.trail[k].response.content = "ok" )
          => /\ rq.result.ok
             /\ rq.result.content = "ok"
             /\ Counts(0, 1, 1)
             /\ Counts(1, 1, 0)

\* The sleeps 2, 4, 8, 16, 32, 60, 60, ... by position in the sequence.
DoublingFromTwo(k) == IF k >= 6 THEN 60 ELSE 2^k

\* C8 as stated: with a single instance that is rate limited on every call
\* the k-th sleep of a request is 2, 4, 8, 16, 32, 60, 60, ... seconds; and
\* with max_retries = 3, a rate limit on the first call and success on the
\* second, there is one sleep of 2 seconds, two invocations, and the instance
\* ends with request_count = 2 and error_count = 1.
C8_AsStated ==
    \A r \in Requests :
        LET rq == req[r] IN
        /\ ( /\ instance_counter = 1
             /\ \A k \in InvokedAt(rq) : IsRateLimit(rq.trail[k].response) )
             => \A k \in 1..Len(rq.sleeps) : rq.sleeps[k].secs = DoublingFromTwo(k)
        /\ ( /\ instance_counter = 1
             /\ max_retries = 3
             /\ rq.pc = "done"
             /\ Len(rq.trail) = 2
             /\ rq.trail[1].invoked /\ IsRateLimit(rq.trail[1].response)
             /\ rq.trail[2].invoked /\ rq.trail[2].response.ok )
             => /\ Len(rq.sleeps) = 1
                /\ rq.sleeps[1].secs = 2
                /\ Invocations(rq) = 2
                /\ Counts(0, 2, 1)

\* min(2^a, 60) without forming 2^a for a large a.
CappedPowerOfTwo(a) == IF a >= 6 THEN 60 ELSE 2^a

\* C9 as stated: a RateLimit error seen with the attempt counter at a is
\* followed by a sleep of exactly min(2^a, 60) seconds, so of 60 seconds for
\* every a >= 6.
C9_AsStated ==
    \A r \in Requests :
        /\ req[r].pc # "panicked"
        /\ \A k \in 1..Len(req[r].sleeps) :
             req[r].sleeps[k].secs = CappedPowerOfTwo(req[r].sleeps[k].attempts)

\* C10 as stated: the adapter invocation that follows a RateLimit error from
\* instance i in the same request is made on i.
C10_AsStated ==
    \A r \in Requests :
        LET rq == req[r] IN
        \A k \in 1..(Len(rq.trail) - 1) :
            ( /\ rq.trail[k].invoked
              /\ IsRateLimit(rq.trail[k].response)
              /\ rq.trail[k + 1].invoked )
              => rq.trail[k + 1].instance_id = rq.trail[k].instance_id

\* The position of an instance in registration order: its index in the
\* routing list of the task, or its id when the request names no task.
RegistrationPosition(id, task) ==
    IF task = NoTask THEN id + 1
    ELSE CHOOSE k \in 1..Len(tasks_to_instances[task]) : tasks_to_instances[task][k] = id

\* C18 as stated: under LRU, when several eligible instances share the
\* smallest last_used, the one dispatched to is the first of them in
\* registration (routing index) order.
C18_AsStated ==
    \A r \in Requests :
        LET rq == req[r]
            ids == { rq.eligible[k] : k \in 1..Len(rq.eligible) }
            oldest == { i \in ids : \A j \in ids : trackers[i].last_used <= trackers[j].last_used }
        IN ( /\ strategy = "lru"
             /\ rq.pc = "calling" )
             => \A i \in oldest :
                    RegistrationPosition(rq.selected, rq.task) <= RegistrationPosition(i, rq.task)

\* The instances whose adapter a request has called so far, the call in
\* flight included.
Dispatched(rq) ==
    { rq.trail[k].instance_id : k \in InvokedAt(rq) }
      \cup (IF rq.pc = "calling" THEN {rq.selected} ELSE {})
StreamDispatched == { stream.invoked[k] : k \in 1..Len(stream.invoked) }

\* C11: the adapter of a disabled instance is never invoked, neither by a
\* first attempt or a retry of a non-streaming request nor by generate_stream,
\* with or without a task; so ProviderDisabled is never what an adapter
\* answers to the manager nor what the manager returns.
C11_DisabledNeverInvoked ==
    /\ \A r \in DOMAIN req :
         /\ \A i \in Dispatched(req[r]) : instances[i].enabled
         /\ \A k \in 1..Len(req[r].trail) :
              req[r].trail[k].response.error.kind # "ProviderDisabled"
         /\ req[r].result.error.kind # "ProviderDisabled"
    /\ \A i \in StreamDispatched : instances[i].enabled
    /\ stream.result.error.kind # "ProviderDisabled"
    /\ \A k \in 1..Len(responses) :
         responses[k].error = None \/ responses[k].error[1] # "Provider disabled: "

\* A request for "chat" was retried and invoked adapters twice while a
\* disabled instance supporting "chat" was registered.
C11_Witness ==
    /\ \E i \in DOMAIN instances : ~instances[i].enabled /\ "chat" \in instances[i].tasks
    /\ \E r \in DOMAIN req :
         /\ req[r].task = "chat"
         /\ Invocations(req[r]) = 2
         /\ req[r].pc = "returned"

\* C12: in every reachable state every tracker has error_count <=
\* request_count and holds at most 10 response times.
C12_TrackerBounds ==
    \A i \in DOMAIN trackers :
        /\ trackers[i].error_count <= trackers[i].request_count
        /\ Len(trackers[i].response_times) <= 10

\* A tracker has recorded more than 10 successes, and an error as well.
C12_Witness ==
    \E i \in DOMAIN trackers :
        /\ trackers[i].request_count - trackers[i].error_count > 10
        /\ trackers[i].error_count > 0
        /\ Len(trackers[i].response_times) = 10

\* The requests whose successful response with usage has gone through
\* update_instance_usage for instance i.
Accounted(i) ==
    { r \in DOMAIN req :
        /\ req[r].pc \in {"classify", "done", "returned", "panicked"}
        /\ req[r].response.ok
        /\ req[r].response.has_usage
        /\ req[r].selected = i }
\* The sum over a set of requests of one field of their usages, as a
\* number without a width: lo below 2^16, hi unbounded.
FieldNames == {"prompt", "completion", "total"}
ExactSum(rs, field) ==
    LET RECURSIVE Go(_)
        Go(left) ==
            IF left = {} THEN [hi |-> 0, lo |-> 0]
            ELSE LET r == CHOOSE q \in left : TRUE
                     rest == Go(left \ {r})
                     u == req[r].response.usage[field]
                 IN [hi |-> rest.hi + u.hi, lo |-> rest.lo + u.lo]
        raw == Go(rs)
    IN [hi |-> raw.hi + (raw.lo \div U32Limb), lo |-> raw.lo % U32Limb]

\* C14 as stated: the cumulative usage of an instance is the sum of the
\* usages of the successful responses reported for it, every component on
\* its own, and get_total_usage is the sum over all instances.
C14_AsStated ==
    \A f \in FieldNames :
        /\ \A i \in DOMAIN total_usage :
             /\ get_instance_usage(i) # Absent
             /\ get_instance_usage(i).value[f] = ExactSum(Accounted(i), f)
        /\ ~get_total_usage.panicked
        /\ get_total_usage.usage[f] =
             ExactSum(UNION { Accounted(i) : i \in DOMAIN total_usage }, f)

\* The adapter calls on instance i that have completed and gone through the
\* metrics update: the invoked trail entries of i, less the call whose
\* update is still to come.
RecordedCalls(i) ==
    { <<r, k>> \in (DOMAIN req) \X (1..(MaxRetries + 2)) :
        /\ k \in InvokedAt(req[r])
        /\ req[r].trail[k].instance_id = i
        /\ ~(req[r].pc = "record" /\ k = Len(req[r].trail)) }
RecordedErrors(i) ==
    { c \in RecordedCalls(i) : ~req[c[1]].trail[c[2]].response.ok }

\* C13: under every interleaving of concurrent requests each completed
\* adapter call on an instance is recorded exactly once: request_count is
\* the number of completed calls on it, error_count the number of those that
\* returned an error, and an instance that has completed a call was last
\* used later than one that never has.
C13_EveryCallRecordedOnce ==
    \A i \in DOMAIN trackers :
        /\ trackers[i].request_count = Cardinality(RecordedCalls(i))
        /\ trackers[i].error_count = Cardinality(RecordedErrors(i))
        /\ \A j \in DOMAIN trackers :
             (RecordedCalls(i) # {} /\ RecordedCalls(j) = {})
               => trackers[i].last_used > trackers[j].last_used

\* Under batch_generate two calls on the same instance are in flight
\* together, one completed and about to be recorded, after an earlier call
\* on that instance failed and was recorded.
C13_Witness ==
    /\ op = "batch_generate"
    /\ \E i \in DOMAIN trackers : \E r1, r2 \in DOMAIN req :
         /\ r1 # r2
         /\ req[r1].pc = "record" /\ req[r1].selected = i
         /\ req[r2].pc = "calling" /\ req[r2].selected = i
         /\ trackers[i].request_count >= 1
         /\ trackers[i].error_count >= 1

\* What generate_response returned for request r, as the element of the
\* list that the operation owes the caller.
OutcomeOf(r) == to_manager_response(req[r].result)

\* C15: batch_generate returns a list as long as its input whose element k
\* is the outcome of request k, in whatever order the requests completed and
\* whether or not some of them failed.
C15_BatchKeepsInputOrder ==
    (op = "batch_generate" /\ returned)
      => /\ Len(responses) = Len(requests)
         /\ \A k \in 1..Len(requests) : responses[k] = OutcomeOf(k)

\* A batch of three has returned whose requests completed in the reverse
\* of the input order: the first failed, the last succeeded.
C15_Witness ==
    /\ op = "batch_generate"
    /\ returned
    /\ Len(requests) = 3
    /\ [k \in 1..3 |-> outputs[k].index] = <<3, 2, 1>>
    /\ ~responses[1].success
    /\ responses[3].success

\* C16: generate_sequentially works on one request at a time in input
\* order: a request is not begun, so no adapter is called for it, before
\* every earlier request has finished with its retries and its response has
\* been pushed; the responses are those of the requests in input order, a
\* failed request giving success = false and the text of its error; and the
\* list returned is as long as the input.
C16_SequentialInOrder ==
    op = "generate_sequentially"
      => /\ \A r1, r2 \in DOMAIN req :
              (r1 < r2 /\ req[r2].pc # "idle") => req[r1].pc = "returned"
         /\ Len(responses) = Cardinality({ r \in DOMAIN req : req[r].pc = "returned" })
         /\ \A k \in 1..Len(responses) :
              /\ req[k].pc = "returned"
              /\ responses[k].success = req[k].result.ok
              /\ req[k].result.ok =>
                   responses[k].content = req[k].result.content /\ responses[k].error = None
              /\ ~req[k].result.ok =>
                   responses[k].content = "" /\ responses[k].error = to_string(req[k].result.error)
         /\ returned => Len(responses) = Len(requests)

\* A list of two has been returned: the first request failed after a retry
\* (two adapter calls), the second succeeded after it.
C16_Witness ==
    /\ op = "generate_sequentially"
    /\ returned
    /\ Len(requests) = 2
    /\ Invocations(req[1]) = 2
    /\ ~responses[1].success
    /\ responses[1].error[1] = "API error: "
    /\ responses[2].success

\* The instance that served request r: the one of its last adapter call.
ServedBy(r) == req[r].trail[Len(req[r].trail)].instance_id
FourChats == [k \in 1..4 |-> "chat"]
HappyUsage == TokenUsage(u32(0, 5), u32(0, 10), u32(0, 15))

\* The happy path: LRU, A and B enabled and supporting "chat", four requests
\* for "chat" made one after another and all answered, every adapter call
\* having succeeded with usage {5, 10, 15}.
HappyPath ==
    /\ op = "generate_sequentially"
    /\ returned
    /\ requests = FourChats
    /\ strategy = "lru"
    /\ instance_counter = 2
    /\ \A i \in {0, 1} : instances[i].enabled /\ "chat" \in instances[i].tasks
    /\ \A r \in DOMAIN req : \A k \in InvokedAt(req[r]) :
         req[r].trail[k].response = OkResponse("ok", TRUE, HappyUsage)

\* C17: on the happy path consecutive requests are served by different
\* instances, A and B each handle exactly 2 of the 4, and the total usage
\* afterwards is {20, 40, 60}.
C17_HappyPathAlternates ==
    HappyPath
      => /\ \A r \in 1..4 : Invocations(req[r]) = 1 /\ responses[r].success
         /\ \A r \in 1..3 : ServedBy(r) # ServedBy(r + 1)
         /\ \A i \in {0, 1} :
              /\ Cardinality({ r \in 1..4 : ServedBy(r) = i }) = 2
              /\ Counts(i, 2, 0)
         /\ ~get_total_usage.panicked
         /\ get_total_usage.usage = TokenUsage(u32(0, 20), u32(0, 40), u32(0, 60))

\* The happy path has been run to its end.
C17_Witness == HappyPath /\ Len(responses) = 4 /\ ServedBy(4) \in {0, 1}

\* Nothing in the registry is eligible for the task of the stream request:
\* the task is in no routing list, or there are no instances, or every
\* instance supporting the task is disabled.
NothingEligible(task) ==
    \A i \in DOMAIN instances :
        ~(instances[i].enabled /\ (task = NoTask \/ task \in instances[i].tasks))

\* C19: generate_stream makes one selection pass and at most one adapter
\* call, whatever the adapter answers: an adapter error is returned as it
\* is and no other instance is tried; and when nothing is eligible the call
\* fails with a ConfigError with no adapter invoked and no chunk produced.
C19_StreamSelectsOnce ==
    /\ stream.passes <= 1
    /\ Len(stream.invoked) <= 1
    /\ (stream.pc = "done" /\ stream.invoked # <<>>) =>
         /\ stream.result \in generate_stream_results(stream.invoked[1])
         /\ stream.passes = 1
    /\ (stream.pc = "done" /\ NothingEligible(stream.task)) =>
         /\ ~stream.result.ok
         /\ stream.result.error.kind = "ConfigError"
         /\ stream.invoked = <<>>
         /\ stream.chunks = 0
    /\ stream.chunks > 0 => stream.result.ok

\* A stream request was answered with an adapter error while a second
\* enabled instance supporting its task was registered and left untried.
C19_Witness ==
    /\ stream.pc = "done"
    /\ Len(stream.invoked) = 1
    /\ ~stream.result.ok
    /\ stream.result.error.kind = "ApiError"
    /\ \E i \in DOMAIN instances :
         /\ i # stream.invoked[1]
         /\ instances[i].enabled
         /\ stream.task \in instances[i].tasks

\* C20: with no instance registered every operation ends in a ConfigError
\* without a panic and without an adapter call: generate_stream returns
\* Err(ConfigError), and the list operations return one element per request,
\* each with success = false and the text of a ConfigError.
C20_EmptyRegistryConfigError ==
    (phase = "run" /\ instance_counter = 0)
      => /\ stream.invoked = <<>>
         /\ stream.pc \notin {"pick", "invoking"}
         /\ stream.pc = "done" =>
              ~stream.result.ok /\ stream.result.error.kind = "ConfigError"
         /\ \A r \in DOMAIN req :
              /\ Dispatched(req[r]) = {}
              /\ req[r].pc \notin {"pick", "calling", "record", "usage", "sleeping", "panicked"}
              /\ req[r].pc \in {"done", "returned"} =>
                   ~req[r].result.ok /\ req[r].result.error.kind = "ConfigError"
         /\ returned =>
              /\ Len(responses) = Len(requests)
              /\ \A k \in 1..Len(responses) :
                   /\ ~responses[k].success
                   /\ responses[k].error # None
                   /\ responses[k].error[1] = "Configuration error: "

\* With no instance registered a list of two requests, the first naming a
\* task and the second not, has been answered.
C20_Witness ==
    /\ instance_counter = 0
    /\ returned
    /\ requests = <<"chat", NoTask>>
    /\ Len(responses) = 2
    /\ \A k \in 1..2 : ~responses[k].success

\* The slice a request handed to the strategy and the index returned: the
\* position in the slice of the instance the request went on to call.
SliceOf(rq) == rq.eligible
IndexReturned(rq) == CHOOSE k \in 1..Len(rq.eligible) : rq.eligible[k] = rq.selected

\* C29: LeastRecentlyUsedStrategy on a non-empty slice returns a valid
\* index, of an entry with the smallest last_used, and the smallest index
\* among the entries with that last_used.
C29_LruFirstOldest ==
    \A r \in DOMAIN req :
        LET rq == req[r]
            at(k) == trackers[SliceOf(rq)[k]].last_used
        IN (strategy = "lru" /\ rq.pc = "calling")
             => /\ \E k \in 1..Len(SliceOf(rq)) : SliceOf(rq)[k] = rq.selected
                /\ \A k \in 1..Len(SliceOf(rq)) : at(IndexReturned(rq)) <= at(k)
                /\ \A k \in 1..(IndexReturned(rq) - 1) : at(k) > at(IndexReturned(rq))

\* LRU was handed a slice of three in which the oldest last_used is shared
\* by the second and third entries only.
C29_Witness ==
    \E r \in DOMAIN req :
        LET rq == req[r]
            at(k) == trackers[SliceOf(rq)[k]].last_used
        IN /\ strategy = "lru"
           /\ rq.pc = "calling"
           /\ Len(SliceOf(rq)) = 3
           /\ at(2) = at(3)
           /\ at(1) > at(2)
           /\ IndexReturned(rq) = 2

NamesGiven(method) ==
    { builder_calls[k].name :
        k \in { j \in 1..Len(builder_calls) : builder_calls[j].method = method } }

\* C21: build returns a ConfigError, and no manager, whenever some instance
\* was said to support a task name that define_task was never given, in
\* whatever order the calls were made; when build succeeds every instance's
\* supported tasks are among the defined names.
C21_UndefinedTaskFailsBuild ==
    (built # NotBuilt)
      => /\ (NamesGiven("supports") \subseteq NamesGiven("define_task"))
              <=> built = BuiltOk
         /\ built # BuiltOk
              => /\ built.state = "Err"
                 /\ built.error.kind = "ConfigError"
                 /\ built.error.task \in NamesGiven("supports") \ NamesGiven("define_task")
                 /\ phase = "build"
                 /\ instance_counter = 0
         /\ built = BuiltOk
              => /\ phase = "run"
                 /\ instance_counter = Len(providers_to_build)
                 /\ \A i \in DOMAIN instances :
                        /\ instances[i].tasks \subseteq NamesGiven("define_task")
                        /\ instances[i].tasks = NamesOf(providers_to_build[i + 1].supported_task_names)

\* A build that failed on a name although the task was defined for the
\* first instance, and the first instance's task was defined only after
\* supports had named it.
C21_Witness ==
    /\ built.state = "Err"
    /\ Len(providers_to_build) = 2
    /\ built.error.task \in NamesOf(providers_to_build[2].supported_task_names)
    /\ providers_to_build[1].supported_task_names # <<>>
    /\ NamesOf(providers_to_build[1].supported_task_names) \subseteq NamesGiven("define_task")
    /\ \E j, k \in 1..Len(builder_calls) :
         /\ j < k
         /\ builder_calls[j].method = "supports"
         /\ builder_calls[k].method = "define_task"
         /\ builder_calls[k].name = builder_calls[j].name

\* The names define_task was called with more than once.
DefinedTwice ==
    { builder_calls[j].name :
        j \in { k \in 1..Len(builder_calls) :
                  /\ builder_calls[k].method = "define_task"
                  /\ \E o \in 1..(k - 1) :
                       /\ builder_calls[o].method = "define_task"
                       /\ builder_calls[o].name = builder_calls[k].name } }

\* C27 as stated: a builder in which define_task was called twice with the
\* same task name does not build a manager: build returns an error.
C27_AsStated ==
    (built # NotBuilt /\ DefinedTwice # {}) => built.state = "Err"

\* The strategy each accepted name stands for.
StrategyNamed(name) ==
    IF name \in {lru, least_recently_used} THEN "lru"
    ELSE IF name \in {lowest_latency, latency} THEN "lowest_latency"
    ELSE "random"

\* A configuration in which nothing but the strategy name can be wrong.
ProvidersValid ==
    \A p \in 1..Len(config.providers) :
        /\ contains(valid_providers, to_lowercase(config.providers[p].provider_type))
        /\ \A k \in 1..Len(config.providers[p].tasks) :
               \E t \in 1..Len(config.tasks) : config.tasks[t].name = config.providers[p].tasks[k]

\* C26 as stated: a configuration whose settings.strategy is lru,
\* least_recently_used, lowest_latency, latency or random builds a manager
\* with the strategy the name (or the name it is an alias of) stands for,
\* and a configuration with any other strategy value is refused with a
\* configuration error.  Names are read without regard to letter case.
C26_AsStated ==
    LET name == to_lowercase(config.strategy) IN
    (built # NotBuilt)
      => IF name \in {lru, least_recently_used, lowest_latency, latency, random}
           THEN ProvidersValid
                  => built = BuiltOk /\ strategy = StrategyNamed(name)
           ELSE built.state = "Err" /\ built.error.kind = "ConfigError"

\* C24 as stated: whatever the adapter, a response with status 429, or
\* with another non-2xx status and a body containing one of the rate-limit
\* keywords, makes generate return a RateLimit error, and every other
\* non-2xx response makes it return an ApiError.
C24_AsStated ==
    LET limited == \/ http.status = 429
                   \/ \E keyword \in RateLimitKeywords :
                        str_contains(to_lowercase(http.body), keyword)
    IN (http.result # NoError)
         => http.result.kind = (IF limited THEN "RateLimit" ELSE "ApiError")

\* The lines of a response body in order, and the position of the first
\* line whose payload is [DONE] (0 when there is none).
BodyLines ==
    [k \in 1..LinesBefore(sse.body, Len(sse.body) + 1) |->
        LET b == CHOOSE c \in 1..Len(sse.body) :
                     /\ LinesBefore(sse.body, c) < k
                     /\ k <= LinesBefore(sse.body, c + 1)
        IN sse.body[b][k - LinesBefore(sse.body, b)]]
DonePositions ==
    { k \in 1..Len(BodyLines) : BodyLines[k] = Line("data: ", "[DONE]") }

\* C28 as stated: a [DONE] payload ends the stream, so no item delivered to
\* the caller, chunk or error, was made from a line that comes after a
\* [DONE] line of the response body.
C28_AsStated ==
    (sse # NoSse)
      => \A i \in 1..Len(sse.delivered) :
            \A k \in DonePositions : sse.delivered[i].line < k

\* The value the claim gives a key: the request's override when the request
\* has one, else the task's default when the request names a task and the
\* task has one, else nothing.
Overlaid(key) ==
    IF merge.request_params # Absent /\ key \in DOMAIN merge.request_params.value
      THEN Some(merge.request_params.value[key])
    ELSE IF merge.task # NoTask /\ key \in DOMAIN merge.task_def.value
      THEN Some(merge.task_def.value[key])
    ELSE Absent

\* C25: the merged parameter map holds, for every key, the request's value
\* if the request has the key, else the task default if there is a task
\* with that key, and no other key; the LlmRequest's max_tokens is the
\* merged max_tokens when that is an unsigned integer (of 32 bits) and
\* absent otherwise, its temperature the merged temperature when that is a
\* number and absent otherwise.
C25_MergeLastWriteWins ==
    (merge # NoMerge /\ merge.state = "built")
      => /\ \A key \in Keys : get(merge.request.final_params, key) = Overlaid(key)
         /\ DOMAIN merge.request.final_params \subseteq Keys
         /\ LET m == Overlaid("max_tokens") IN
              IF m # Absent /\ m.value.kind = "u64"
                THEN m.value.high = 0 => merge.request.max_tokens = Some(m.value)
                ELSE merge.request.max_tokens = Absent
         /\ LET t == Overlaid("temperature") IN
              IF t # Absent /\ t.value.kind \in {"u64", "f64"}
                THEN t.value.high = 0
                       => /\ merge.request.temperature # Absent
                          /\ merge.request.temperature.value.low = t.value.low
                          /\ merge.request.temperature.value.tenths = t.value.tenths
                ELSE merge.request.temperature = Absent

\* A merge in which max_tokens is in both maps with different values,
\* temperature only in the task's and top_p only in the request's, and the
\* LlmRequest has the request's max_tokens and the task's temperature.
C25_Witness ==
    /\ merge # NoMerge
    /\ merge.state = "built"
    /\ merge.task_def # Absent
    /\ merge.request_params # Absent
    /\ DOMAIN merge.task_def.value = {"max_tokens", "temperature"}
    /\ DOMAIN merge.request_params.value = {"max_tokens", "top_p"}
    /\ merge.task_def.value["max_tokens"] = UInt(0, 100)
    /\ merge.request_params.value["max_tokens"] = UInt(0, 200)
    /\ merge.task_def.value["temperature"] = Float(7)
    /\ merge.request.max_tokens = Some(UInt(0, 200))
    /\ merge.request.temperature # Absent
    /\ merge.request.temperature.value.tenths = 7
    /\ DOMAIN merge.request.final_params = Keys

\* The instances a request marked failed so far: those it invoked and got
\* an error other than RateLimit from.
FailedIn(rq) ==
    { rq.trail[k].instance_id :
        k \in { j \in 1..Len(rq.trail) :
                  /\ rq.trail[j].invoked
                  /\ ~rq.trail[j].response.ok
                  /\ rq.trail[j].response.error.kind # "RateLimit" } }

\* C23: every request starts with no failure marks and no attempts, so at
\* its first selection the candidates are all enabled instances supporting
\* its task, whatever failed in other requests; and whatever has failed,
\* every registered instance stays in the registry and in the routing list
\* of each task it supports.
C23_FailureMarksPerRequest ==
    /\ \A r \in DOMAIN req :
          LET rq == req[r] IN
          /\ rq.trail # <<>>
               => rq.trail[1].failed = <<>> /\ rq.trail[1].attempts = 0
          /\ (rq.pc = "pick" /\ rq.trail = <<>>)
               => { rq.eligible[k] : k \in 1..Len(rq.eligible) }
                    = { i \in DOMAIN instances :
                          /\ instances[i].enabled
                          /\ rq.task = NoTask \/ rq.task \in instances[i].tasks }
    /\ DOMAIN instances = 0..(instance_counter - 1)
    /\ DOMAIN trackers = DOMAIN instances
    /\ \A i \in DOMAIN instances : \A t \in instances[i].tasks :
          /\ t \in DOMAIN tasks_to_instances
          /\ \E k \in 1..Len(tasks_to_instances[t]) : tasks_to_instances[t][k] = i

\* A request at its first selection has among its candidates an instance
\* that another request has marked failed.
C23_Witness ==
    \E r, q \in DOMAIN req :
        /\ r # q
        /\ req[r].pc = "pick"
        /\ req[r].trail = <<>>
        /\ \E k \in 1..Len(req[r].eligible) : req[r].eligible[k] \in FailedIn(req[q])

\* C22: a request that is suspended in an adapter's generate or in a
\* backoff sleep, and a generate_stream call that is suspended in an
\* adapter's generate_stream, holds none of the manager's locks.
C22_NoLockWhileSuspended ==
    /\ \A r \in DOMAIN req :
          req[r].pc \in {"calling", "sleeping"} => req[r].locks \cap Mutexes = {}
    /\ stream.pc = "invoking" => stream.locks \cap Mutexes = {}

\* Two requests of a batch are suspended at once, one in its adapter call
\* and one in a backoff sleep after its own call was rate limited.
C22_Witness ==
    \E r, q \in DOMAIN req :
        /\ req[r].pc = "calling"
        /\ req[q].pc = "sleeping"
        /\ req[q].trail # <<>>
        /\ op = "batch_generate"

\* The latencies of the successful calls among the results a tracker was
\* handed, in the order the calls completed, and the last n of a sequence.
SuccessLatencies(results) ==
    LET succeeded == SelectSeq(results, LAMBDA e : e.ok)
    IN [k \in 1..Len(succeeded) |-> succeeded[k].duration]
MostRecent(s, n) == SubSeq(s, Len(s) - n + 1, Len(s))

\* C31: after any sequence of record_result calls response_times is the
\* sequence of the latencies of the most recent min(10, number of successes)
\* successful calls in the order they completed; a failed call adds nothing
\* to it and evicts nothing from it.
C31_WindowIsLastTenSuccesses ==
    (phase = "run" /\ op = "none" /\ DOMAIN trackers = {0})
      => LET latencies == SuccessLatencies(history)
             n == IF Len(latencies) < 10 THEN Len(latencies) ELSE 10
         IN trackers[0].response_times = MostRecent(latencies, n)

\* Eleven calls succeeded, the first two with different latencies, a call
\* failed after the tenth success, and the window begins with the latency
\* of the second success.
C31_Witness ==
    LET latencies == SuccessLatencies(history) IN
    /\ Len(latencies) = 11
    /\ latencies[1] # latencies[2]
    /\ \E k \in 11..Len(history) : ~history[k].ok
    /\ Len(trackers[0].response_times) = 10
    /\ trackers[0].response_times[1] = latencies[2]

\* What a construction was given: the providers in the order they were
\* registered, each with its enabled flag and the task names it was said to
\* support, from the builder's calls or from the configuration.
GivenProviders ==
    IF builder_calls # <<>>
      THEN [p \in 1..Len(providers_to_build) |->
              [enabled |-> providers_to_build[p].enabled,
               tasks |-> NamesOf(providers_to_build[p].supported_task_names)]]
      ELSE [p \in 1..Len(config.providers) |->
              [enabled |-> config.providers[p].enabled,
               tasks |-> NamesOf(config.providers[p].tasks)]]
Occurrences(list, id) == Cardinality({ k \in 1..Len(list) : list[k] = id })

\* C32: after a construction with n instances, by the builder or from a
\* configuration, the ids are 0..n-1 in registration order; the tracker map
\* and the usage map have exactly these ids as keys, every tracker with
\* request_count = error_count = 0 and an empty latency window, every usage
\* zero (get_instance_usage is Some(zero) for a registered id and None for
\* any other, get_total_usage is zero); and an id occurs in the routing list
\* of a task, exactly once, if and only if its instance supports the task.
C32_RegistryConsistent ==
    (built = BuiltOk)
      => LET n == Len(GivenProviders)
             ids == 0..(n - 1)
         IN /\ instance_counter = n
            /\ DOMAIN instances = ids
            /\ \A i \in ids : instances[i] = GivenProviders[i + 1]
            /\ DOMAIN trackers = ids
            /\ DOMAIN total_usage = ids
            /\ { tracker_order[k] : k \in 1..Len(tracker_order) } = ids
            /\ Len(tracker_order) = n
            /\ \A i \in ids :
                 /\ trackers[i].request_count = 0
                 /\ trackers[i].error_count = 0
                 /\ trackers[i].response_times = <<>>
            /\ \A id \in 0..(n + 1) :
                 get_instance_usage(id) = IF id \in ids THEN Some(NoUsage) ELSE Absent
            /\ get_total_usage = [usage |-> NoUsage, panicked |-> FALSE]
            /\ \A t \in DOMAIN tasks_to_instances :
                 \A k \in 1..Len(tasks_to_instances[t]) : tasks_to_instances[t][k] \in ids
            /\ \A t \in Tasks : \A i \in ids :
                 IF t \in GivenProviders[i + 1].tasks
                   THEN /\ t \in DOMAIN tasks_to_instances
                        /\ Occurrences(tasks_to_instances[t], i) = 1
                   ELSE t \in DOMAIN tasks_to_instances
                          => Occurrences(tasks_to_instances[t], i) = 0

\* The builder has built a manager of two instances that support the same
\* task; id 2 was never registered.
C32_Witness ==
    /\ built = BuiltOk
    /\ builder_calls # <<>>
    /\ instance_counter = 2
    /\ "chat" \in DOMAIN tasks_to_instances
    /\ tasks_to_instances["chat"] = <<0, 1>>
    /\ instances[0].enabled
    /\ get_instance_usage(1) = Some(NoUsage)
    /\ get_instance_usage(2) = Absent

\* The error of the statement after the retry loop.
FallThroughError ==
    ErrResponse(ConfigError("No available providers after all retry attempts", NoTask, 0))

\* What holds of a generate_response call at every moment: the attempt
\* counter is one more at each iteration than at the one before, there are
\* at most max_retries + 1 iterations, and a call that has returned did so
\* with a success or, the budget spent, with the error of its last
\* iteration, not with the error that follows the loop.
LoopBounded(rq) ==
    /\ \A k \in 1..Len(rq.trail) : rq.trail[k].attempts = k - 1
    /\ Len(rq.trail) <= max_retries + 1
    /\ rq.pc = "select" => within_budget(rq.attempts, max_retries)
    /\ rq.pc = "done" =>
         /\ rq.trail # <<>>
         /\ rq.result = rq.trail[Len(rq.trail)].response
         /\ rq.result.ok \/ budget_exhausted(rq.attempts, max_retries)
         /\ rq.result.ok \/ Len(rq.trail) = max_retries + 1
         /\ rq.result # FallThroughError

C34_AsStated ==
    \A r \in Requests :
        LET rq == req[r]
            failed == rq.failed_instances
        IN /\ \A k \in 1..Len(failed) : failed[k] \in FailedIds(rq)
           /\ \A k \in 1..(Len(rq.trail) - 1) :
                ~rq.trail[k].invoked => rq.trail[k + 1].failed = rq.trail[k].failed
           /\ \A j, k \in 1..Len(failed) : failed[j] = failed[k] => j = k

\* C35: in the non-streaming and in the streaming selection, whatever the
\* interleaving of concurrent requests, the strategy is never handed an
\* empty slice and the id it selects is in the eligible list collected
\* under the earlier acquisition of the trackers lock: no call reaches the
\* strategy with nothing to choose from, and none panics in the selection.
C35_SelectionNeverPanics ==
    /\ \A r \in DOMAIN req :
         LET rq == req[r] IN
         /\ rq.pc = "pick" =>
              /\ eligible_trackers(rq.eligible) # <<>>
              /\ eligible_trackers(rq.eligible) = rq.eligible
         /\ rq.pc = "calling" => Contains(rq.eligible, rq.selected)
         /\ rq.pc # "panicked"
    /\ stream.pc = "pick" =>
         /\ eligible_trackers(stream.eligible) # <<>>
         /\ eligible_trackers(stream.eligible) = stream.eligible
    /\ stream.pc = "invoking" => Contains(stream.eligible, stream.selected)
    /\ stream.pc # "panicked"

\* Two requests of a batch are between the two acquisitions of the
\* trackers lock at once, with two candidates each, while a third request
\* has had its result recorded on one of the candidates.
C35_Witness ==
    \E r, q, d \in DOMAIN req :
        /\ r # q
        /\ req[r].pc = "pick" /\ Len(req[r].eligible) = 2
        /\ req[q].pc = "pick" /\ Len(req[q].eligible) = 2
        /\ req[d].pc \in {"done", "returned"}
        /\ req[d].trail # <<>>
        /\ req[d].trail[1].invoked

\* Lock traffic as the claim speaks of it: the mutex a caller is waiting
\* for, the caller it thereby waits on, and the order of the locks.
Wanted(c) ==
    IF locking.at[c] # IdleCaller /\ next_step(c).do = "lock"
      THEN next_step(c).mutex ELSE "none"
WaitsOn(c) == IF Wanted(c) = "none" THEN 0 ELSE locking.owner[Wanted(c)]
LockRank(m) ==
    CASE m = "tasks_to_instances" -> 1
      [] m = "trackers" -> 2
      [] m = "strategy" -> 3
      [] m = "total_usage" -> 4

\* C36: no deadlock, for callers of generate_sequentially, batch_generate,
\* generate_stream, get_instance_usage, get_total_usage, get_provider_count
\* and print_token_usage on one manager: a lock is only ever asked for by a
\* caller whose guards all come before it in one fixed order, no set of
\* callers waits on one another in a cycle, and every lock asked for is
\* eventually granted.
C36_NoDeadlock ==
    /\ [](\A c \in Callers :
            /\ Wanted(c) # "none" =>
                 \A held \in guards_of(c) : LockRank(held) < LockRank(Wanted(c))
            /\ \A waiting \in (SUBSET Callers) \ {{}} :
                 \E w \in waiting : WaitsOn(w) \notin waiting)
    /\ \A c \in Callers : \A m \in Mutexes :
         (Wanted(c) = m) ~> (locking.owner[m] = c)

\* A caller of print_token_usage holds the trackers guard and waits for the
\* usage lock held by a second caller, while a third waits for the trackers
\* lock inside the strategy block's acquisition.
C36_Witness ==
    \E a, b, c \in Callers :
        /\ locking.at[a].op = "print_token_usage"
        /\ guards_of(a) = {"trackers"}
        /\ Wanted(a) = "total_usage"
        /\ WaitsOn(a) = b
        /\ locking.at[c].op = "batch_generate"
        /\ Wanted(c) = "trackers"
        /\ WaitsOn(c) = a
        /\ locking.at[c].pc = 5

\* C37: under LRU, the first attempts of the k requests of a batch for a
\* task with at least k enabled instances go to k distinct instances: no two
\* first attempts are in flight together on one instance.
C37_AsStated ==
    (strategy = "lru" /\ op = "batch_generate") =>
      \A r1, r2 \in DOMAIN req :
        ( /\ r1 # r2
          /\ req[r1].pc = "calling" /\ req[r2].pc = "calling"
          /\ req[r1].trail = <<>> /\ req[r2].trail = <<>>
          /\ req[r1].task = req[r2].task
          /\ Len(req[r1].eligible) >= Len(requests)
          /\ Len(req[r2].eligible) >= Len(requests) )
        => req[r1].selected # req[r2].selected

\* The generate_stream calls made so far that reached an adapter: the task
\* asked for and the instance invoked.
StreamDispatches ==
    { [task |-> stream.series[k].task, id |-> stream.series[k].invoked[1]] :
        k \in { j \in 1..Len(stream.series) : stream.series[j].invoked # <<>> } }
      \cup (IF stream.invoked # <<>>
              THEN {[task |-> stream.task, id |-> stream.invoked[1]]} ELSE {})

\* C38: no step of a generate_stream call changes a tracker or the usage
\* map, whether the adapter opens the stream, fails to, or the stream fails
\* later; and under LRU the calls of a series that ask for the same task all
\* go to the same instance.
C38_StreamLeavesTrackersAlone ==
    /\ [][phase = "run" => (trackers' = trackers /\ total_usage' = total_usage)]_vars
    /\ [](strategy = "lru" =>
            \A a, b \in StreamDispatches : a.task = b.task => a.id = b.id)

\* Under LRU with two enabled instances for the task: a first call whose
\* stream opened and failed mid-stream, a second whose adapter failed at the
\* start, and a third whose stream opened, all for the same task.
C38_Witness ==
    /\ strategy = "lru"
    /\ Len(stream.series) = 2
    /\ stream.series[1].result.ok /\ stream.series[1].failed
    /\ stream.series[2].invoked # <<>> /\ ~stream.series[2].result.ok
    /\ stream.pc = "done" /\ stream.result.ok /\ stream.chunks >= 1
    /\ stream.task = "chat"
    /\ stream.series[1].task = "chat" /\ stream.series[2].task = "chat"
    /\ Len(stream.eligible) >= 2

\* C39: the items a streaming decoder has delivered once the whole body has
\* arrived are those it delivers when the body arrives in one network
\* chunk, wherever the transport cut the body.
C39_AsStated ==
    (sse # NoSse /\ sse.state = "bytes" /\ sse.read = Len(sse.body)) =>
      sse.delivered = decode_bytes(sse.body)

====
